---- MODULE Spec2Model ----
(***************************************************************************)
(* Model of app.py: the /transcript and /comments endpoints with their     *)
(* two-tier caches and in-flight (single-flight) maps, the comment         *)
(* strategy chain, and the transcript orchestrator with its proxy          *)
(* provider pool.                                                          *)
(*                                                                         *)
(* Nine specifications share the module:                                  *)
(*   Spec      the /transcript endpoint (get_transcript_endpoint)          *)
(*   SpecC     the /comments endpoint and _fetch_comments_resilient        *)
(*   SpecO     get_transcript: provider loop and parallel fallback         *)
(*   SpecL     language resolution and the track the adapters select       *)
(*   SpecE     the two endpoints, for what is said of both                 *)
(*   SpecV     extract_video_id on every parameter                         *)
(*   SpecK     the cache keys of one video, request after request          *)
(*   SpecP     the provider pool under any sequence of calls               *)
(*   FairSpecE the two endpoints under fair scheduling of the handlers     *)
(***************************************************************************)
EXTENDS Integers, Sequences, FiniteSets, TLC

\* ---------------------------------------------------------------- bounds
MaxRequests == 3
MaxConcurrent == 2
NKeys == 1
NProviders == 2
MaxCommentRequests == 2
MaxCalls == 2

\* ------------------------------------------------------ program constants
TRANSCRIPT_CACHE_TTL == 2
MaxFetchAttempts == 2

\* the handler threads; each serves one request at a time
Req == 1..MaxConcurrent
Keys == 1..NKeys

NONE == "none"
NOT_AVAILABLE == "__NOT_AVAILABLE__"
\* the payloads get_transcript can return, numbered in the order in
\* which the upstream first produces them
PayloadSeq == <<"p1", "p2">>
Payloads == {PayloadSeq[i] : i \in 1..Len(PayloadSeq)}
PayloadNo(p) == CHOOSE i \in 1..Len(PayloadSeq) : PayloadSeq[i] = p

VARIABLES
    transcript_cache,           \* memory tier: key -> [val, left]
    transcript_db,              \* persistent tier (shelve): key -> value
    transcript_inflight_events, \* key -> id of the registered Event (0: none)
    tevset,         \* the Events that have been set
    nstarted,       \* number of requests received so far
    rid,            \* number of the request the thread is serving
    pc,             \* position of each /transcript request
    rkey,           \* cache_key of the request
    rleader,        \* local variable leader
    revt,           \* local variable evt
    rattempts,      \* local variable attempts
    rval,           \* local variable cached / payload
    rstatus,        \* response status (0: none yet)
    rbody,          \* response payload
    rsrc,           \* which path produced the response
    rcalls,         \* number of get_transcript calls made by the request
    rpre,           \* requests that had returned when this one arrived
    rrecent,        \* those of rpre that returned less than a TTL before
    rfresh,         \* time left until a TTL has passed since the return
    tlast,          \* key -> value of the latest completed fetch-path write
    twriter,        \* tier -> key -> number of the request that wrote the entry
    tseen           \* number of distinct payloads returned so far

VARIABLES
    comment_cache,              \* memory tier: video_id -> [has, val, left]
    comment_db,                 \* persistent tier (shelve): video_id -> [has, val]
    comment_inflight_events,    \* video_id -> id of the registered Event (0: none)
    cevset,         \* the Events that have been set
    cnstarted,      \* number of /comments requests received so far
    creq            \* per handler thread: position, locals, response, history

cvars == <<comment_cache, comment_db, comment_inflight_events, cevset,
           cnstarted, creq>>

VARIABLES
    TRANSCRIPT_PROXY_PROVIDERS, \* the configured providers, in order
    failure_count,              \* provider -> _failure_count
    cooldown_left,              \* provider -> _cooldown_until - time.time(), 0 when passed
    onstarted,      \* number of get_transcript calls started so far
    nfailures,      \* provider -> record_failure calls since the last
                    \* record_success
    ncooldowns,     \* provider -> cooldowns entered since the last
                    \* record_success
    oreq            \* per calling thread: position and locals of get_transcript

ovars == <<TRANSCRIPT_PROXY_PROVIDERS, failure_count, cooldown_left,
           onstarted, nfailures, ncooldowns, oreq>>

VARIABLES
    lreq            \* one /transcript request followed through the language
                    \* resolution and the adapters: inputs, locals, response

VARIABLES
    vreq            \* one call of extract_video_id: argument and result

VARIABLES
    ktranscript_cache,  \* memory tier by cache key, for one video
    ktranscript_db,     \* persistent tier by cache key, for one video
    knstarted,          \* number of requests received so far
    kreq                \* the request being served: parameters, locals, response

kvars == <<ktranscript_cache, ktranscript_db, knstarted, kreq>>

VARIABLES
    pcall           \* the latest call on the provider pool and what it
                    \* returned

lvars == <<lreq, vreq, kvars, pcall>>

tvars == <<transcript_cache, transcript_db, transcript_inflight_events,
           tevset, nstarted, rid, pc, rkey, rleader, revt, rattempts, rval, rstatus, rbody,
           rsrc, rcalls, rpre, rrecent, rfresh, tlast, twriter, tseen>>

vars == <<tvars, cvars, ovars, lvars>>

\* ------------------------------------------------------------ TTLCache
\* An entry records its value and the time left until its expiry
\* (expires - timer()); an expired entry is the same as no entry.
NoEntry == [val |-> NONE, left |-> 0]

\* TTLCache.get / __contains__: an entry whose expiry has been reached is
\* treated as absent.
CacheGet(cache, k) ==
    IF cache[k].val # NONE /\ cache[k].left > 0 THEN cache[k].val ELSE NONE

\* TTLCache.__setitem__: the entry expires ttl after the write.
CachePut(cache, k, v, ttl) ==
    [cache EXCEPT ![k] = [val |-> v, left |-> ttl]]

\* The timer advances by one unit: every entry is one unit closer to its
\* expiry, and an entry that reaches it is dropped (TTLCache.expire).
CacheAge(cache) ==
    [k \in DOMAIN cache |->
        IF cache[k].left > 1
          THEN [val |-> cache[k].val, left |-> cache[k].left - 1]
          ELSE NoEntry]

\* ------------------------------------------------------ /transcript
\* the entry of key k in a tier is now the one request n wrote
Wrote(tier, k, n) == [twriter EXCEPT ![tier][k] = n]

TInit ==
    /\ transcript_cache = [k \in Keys |-> NoEntry]
    /\ transcript_db = [k \in Keys |-> NONE]
    /\ transcript_inflight_events = [k \in Keys |-> 0]
    /\ tevset = {}
    /\ nstarted = 0
    /\ rid = [r \in Req |-> 0]
    /\ pc = [r \in Req |-> "idle"]
    /\ rkey = [r \in Req |-> 0]
    /\ rleader = [r \in Req |-> FALSE]
    /\ revt = [r \in Req |-> 0]
    /\ rattempts = [r \in Req |-> 0]
    /\ rval = [r \in Req |-> NONE]
    /\ rstatus = [r \in Req |-> 0]
    /\ rbody = [r \in Req |-> NONE]
    /\ rsrc = [r \in Req |-> NONE]
    /\ rcalls = [r \in Req |-> 0]
    /\ rpre = [r \in Req |-> {}]
    /\ rrecent = [r \in Req |-> {}]
    /\ rfresh = [r \in Req |-> 0]
    /\ tlast = [k \in Keys |-> NONE]
    /\ twriter = [t \in {"mem", "disk"} |-> [k \in Keys |-> 0]]
    /\ tseen = 0

\* A request returns before the try block: no finally runs.
Respond(r, status, body, src) ==
    /\ rstatus' = [rstatus EXCEPT ![r] = status]
    /\ rbody' = [rbody EXCEPT ![r] = body]
    /\ rsrc' = [rsrc EXCEPT ![r] = src]

\* The handler returns: its locals go away, the response stays.
Return(r) ==
    /\ pc' = [pc EXCEPT ![r] = "done"]
    /\ rfresh' = [rfresh EXCEPT ![r] = TRANSCRIPT_CACHE_TTL]
    /\ rid' = [rid EXCEPT ![r] = 0]
    /\ rleader' = [rleader EXCEPT ![r] = FALSE]
    /\ revt' = [revt EXCEPT ![r] = 0]
    /\ rval' = [rval EXCEPT ![r] = NONE]

\* A request arrives with a valid video id on a free handler thread;
\* cache_key is composed and the thread's locals are fresh.  Threads are
\* interchangeable: the lowest idle one is taken, and a thread that has
\* served a request is taken again only when none is idle.
TStart(r, k) ==
    /\ pc[r] \in {"idle", "done"}
    /\ \A q \in Req : q < r => pc[q] # "idle"
    /\ pc[r] = "done" => \A q \in Req : pc[q] # "idle"
    /\ nstarted < MaxRequests
    /\ nstarted' = nstarted + 1
    /\ rid' = [rid EXCEPT ![r] = nstarted + 1]
    /\ pc' = [pc EXCEPT ![r] = "chkMem"]
    /\ rkey' = [rkey EXCEPT ![r] = k]
    /\ rleader' = [rleader EXCEPT ![r] = FALSE]
    /\ revt' = [revt EXCEPT ![r] = 0]
    /\ rattempts' = [rattempts EXCEPT ![r] = 0]
    /\ rval' = [rval EXCEPT ![r] = NONE]
    /\ rstatus' = [rstatus EXCEPT ![r] = 0]
    /\ rbody' = [rbody EXCEPT ![r] = NONE]
    /\ rsrc' = [rsrc EXCEPT ![r] = NONE]
    /\ rcalls' = [rcalls EXCEPT ![r] = 0]
    /\ rpre' = [q \in Req |->
            IF q = r THEN {x \in Req \ {r} : pc[x] = "done" /\ rkey[x] = k}
                     ELSE rpre[q] \ {r}]
    /\ rrecent' = [q \in Req |->
            IF q = r THEN {x \in Req \ {r} : pc[x] = "done" /\ rkey[x] = k
                                              /\ rfresh[x] > 0}
                     ELSE rrecent[q] \ {r}]
    /\ rfresh' = [rfresh EXCEPT ![r] = 0]
    /\ UNCHANGED <<transcript_cache, transcript_db,
                   transcript_inflight_events, tevset, tlast, tseen, cvars,
                   ovars, lvars, twriter>>

\* ---- the videoId parameter
\* the length of a video id, 11 in VIDEO_ID_REGEX
VIDEO_ID_LENGTH == 2

\* characters of the parameter: "a" is matched by [a-zA-Z0-9_-], "e'" is
\* a letter outside ASCII, which the str pattern \w matches as well, "/"
\* is one of the prefixes the extraction patterns look for, "?" is any
\* other character
IdChars == {"a"}
WordChars == IdChars \cup {"e'"}
RawChars == WordChars \cup {"/", "?"}

\* the longest parameter looked at
MaxRawLen == 3
RawIds == UNION {[1..n -> RawChars] : n \in 0..MaxRawLen}

\* None
NoId == <<>>

validate_video_id(video_id) ==
    /\ Len(video_id) = VIDEO_ID_LENGTH
    /\ \A i \in 1..Len(video_id) : video_id[i] \in WordChars

\* extract_video_id: the parameter itself when it is an id, else the id
\* that follows the leftmost prefix, else None
extract_video_id(url_or_id) ==
    IF validate_video_id(url_or_id) THEN url_or_id
    ELSE LET hits == {i \in 1..(Len(url_or_id) - VIDEO_ID_LENGTH) :
                        /\ url_or_id[i] = "/"
                        /\ \A j \in 1..VIDEO_ID_LENGTH :
                              url_or_id[i + j] \in IdChars}
         IN IF hits = {} THEN NoId
            ELSE LET i == CHOOSE h \in hits : \A o \in hits : h <= o
                     vid == SubSeq(url_or_id, i + 1, i + VIDEO_ID_LENGTH)
                 IN IF validate_video_id(vid) THEN vid ELSE NoId

\* the two 400 answers: "videoId parameter is missing" and "Invalid
\* videoId format or URL"
BadIdKinds == {"missing", "invalid"}

\* the parameters answered that way: "if not video_url_or_id", and
\* "if not video_id" after the extraction
BadIds(why) ==
    {raw \in RawIds :
        \/ why = "missing" /\ raw = <<>>
        \/ why = "invalid" /\ raw # <<>> /\ extract_video_id(raw) = NoId}

\* as TBadRequest, but the marker of an unavailable transcript is left in
\* the memory tier
TBadRequest_NegCache(r, why) ==
    /\ pc[r] \in {"idle", "done"}
    /\ \A q \in Req : q < r => pc[q] # "idle"
    /\ pc[r] = "done" => \A q \in Req : pc[q] # "idle"
    /\ nstarted < MaxRequests
    /\ BadIds(why) # {}
    /\ nstarted' = nstarted + 1
    /\ pc' = [pc EXCEPT ![r] = "done"]
    /\ rkey' = [rkey EXCEPT ![r] = 0]
    /\ rattempts' = [rattempts EXCEPT ![r] = 0]
    /\ Respond(r, 400, NONE, why)
    /\ rcalls' = [rcalls EXCEPT ![r] = 0]
    /\ rpre' = [q \in Req |->
            IF q = r THEN {x \in Req \ {r} : pc[x] = "done"}
                     ELSE rpre[q] \ {r}]
    /\ rrecent' = [q \in Req |->
            IF q = r THEN {} ELSE rrecent[q] \ {r}]
    /\ rfresh' = [rfresh EXCEPT ![r] = 0]
    /\ transcript_cache' = [k \in Keys |->
            [val |-> NOT_AVAILABLE, left |-> TRANSCRIPT_CACHE_TTL]]
    /\ UNCHANGED <<transcript_db, transcript_inflight_events,
                   tevset, rid, rleader, revt, rval, tlast, tseen, cvars,
                   ovars, lvars, twriter>>

\* a request whose videoId parameter raw is empty, or one from which no
\* id can be extracted: 400, before anything else is looked at
TBadRequest(r, why) ==
    /\ pc[r] \in {"idle", "done"}
    /\ \A q \in Req : q < r => pc[q] # "idle"
    /\ pc[r] = "done" => \A q \in Req : pc[q] # "idle"
    /\ nstarted < MaxRequests
    /\ BadIds(why) # {}
    /\ nstarted' = nstarted + 1
    /\ pc' = [pc EXCEPT ![r] = "done"]
    /\ rkey' = [rkey EXCEPT ![r] = 0]
    /\ rattempts' = [rattempts EXCEPT ![r] = 0]
    /\ Respond(r, 400, NONE, why)
    /\ rcalls' = [rcalls EXCEPT ![r] = 0]
    /\ rpre' = [q \in Req |->
            IF q = r THEN {x \in Req \ {r} : pc[x] = "done"}
                     ELSE rpre[q] \ {r}]
    /\ rrecent' = [q \in Req |->
            IF q = r THEN {} ELSE rrecent[q] \ {r}]
    /\ rfresh' = [rfresh EXCEPT ![r] = 0]
    /\ UNCHANGED <<transcript_cache, transcript_db,
                   transcript_inflight_events, tevset, rid, rleader, revt,
                   rval, tlast, tseen, cvars, ovars, lvars, twriter>>

\* cached = transcript_cache.get(cache_key), first lookup and after the wait
MemLookup(r, here, miss) ==
    /\ pc[r] = here
    /\ LET c == CacheGet(transcript_cache, rkey[r]) IN
         \/ /\ c = NONE
            /\ pc' = [pc EXCEPT ![r] = miss]
            /\ UNCHANGED <<rid, rleader, revt, rval, rstatus, rbody, rsrc,
                           rfresh>>
         \/ /\ c = NOT_AVAILABLE
            /\ Respond(r, 404, NONE, "mem")
            /\ Return(r)
         \/ /\ c \in Payloads
            /\ rval' = [rval EXCEPT ![r] = c]
            /\ pc' = [pc EXCEPT ![r] = "refreshMem"]
            /\ UNCHANGED <<rid, rleader, revt, rstatus, rbody, rsrc, rfresh>>
    /\ UNCHANGED <<transcript_cache, transcript_db,
                   transcript_inflight_events, tevset, rkey,
                   rattempts, rcalls, rpre, rrecent, tlast>>
    /\ UNCHANGED <<tseen, nstarted, cvars, ovars, lvars, twriter>>

TChkMem(r) == MemLookup(r, "chkMem", "chkDisk")

\* transcript_cache[cache_key] = payload; return 200 (memory hit)
TRefreshMem(r) ==
    /\ pc[r] = "refreshMem"
    /\ transcript_cache' =
          CachePut(transcript_cache, rkey[r], rval[r], TRANSCRIPT_CACHE_TTL)
    /\ Respond(r, 200, rval[r], "mem")
    /\ Return(r)
    /\ UNCHANGED <<transcript_db, transcript_inflight_events, tevset,
                   rkey, rattempts, rcalls, rpre, rrecent>>
    /\ UNCHANGED <<tseen, nstarted, tlast, cvars, ovars, lvars>>
    /\ twriter' = Wrote("mem", rkey[r], rid[r])

\* cached = db.get(cache_key) (and the legacy read of the same key)
DiskLookup(r, here, miss) ==
    /\ pc[r] = here
    /\ LET c == transcript_db[rkey[r]] IN
         \/ /\ c = NONE
            /\ pc' = [pc EXCEPT ![r] = miss]
            /\ rcalls' = [rcalls EXCEPT ![r] =
                            IF miss = "calling" THEN @ + 1 ELSE @]
            /\ UNCHANGED <<rid, rleader, revt, rval, rstatus, rbody, rsrc,
                           rfresh>>
         \/ /\ c = NOT_AVAILABLE
            /\ Respond(r, 404, NONE, "disk")
            /\ Return(r)
            /\ UNCHANGED rcalls
         \/ /\ c \in Payloads
            /\ rval' = [rval EXCEPT ![r] = c]
            /\ pc' = [pc EXCEPT ![r] = "promote"]
            /\ UNCHANGED <<rid, rleader, revt, rstatus, rbody, rsrc, rfresh,
                           rcalls>>
    /\ UNCHANGED <<transcript_cache, transcript_db,
                   transcript_inflight_events, tevset, rkey,
                   rattempts, rpre, rrecent, tlast>>
    /\ UNCHANGED <<tseen, nstarted, cvars, ovars, lvars, twriter>>

TChkDisk(r) == DiskLookup(r, "chkDisk", "elect")

\* transcript_cache[cache_key] = payload; return 200 (persistent hit)
TPromote(r) ==
    /\ pc[r] = "promote"
    /\ transcript_cache' =
          CachePut(transcript_cache, rkey[r], rval[r], TRANSCRIPT_CACHE_TTL)
    /\ Respond(r, 200, rval[r], "disk")
    /\ Return(r)
    /\ UNCHANGED <<transcript_db, transcript_inflight_events, tevset,
                   rkey, rattempts, rcalls, rpre, rrecent>>
    /\ UNCHANGED <<tseen, nstarted, tlast, cvars, ovars, lvars>>
    /\ twriter' = Wrote("mem", rkey[r], rid[r])

\* as TElect, but an Event is registered whether or not one is there
TElect_AlwaysRegister(r) ==
    /\ pc[r] = "elect"
    /\ transcript_inflight_events' =
          [transcript_inflight_events EXCEPT ![rkey[r]] = rid[r]]
    /\ revt' = [revt EXCEPT ![r] = rid[r]]
    /\ rleader' = [rleader EXCEPT ![r] = TRUE]
    /\ pc' = [pc EXCEPT ![r] = "calling"]
    /\ rcalls' = [rcalls EXCEPT ![r] = @ + 1]
    /\ UNCHANGED <<transcript_cache, transcript_db, tevset, rkey,
                   rattempts, rval, rstatus, rbody, rsrc, rpre,
                   rrecent, rfresh>>
    /\ UNCHANGED <<tseen, nstarted, rid, tlast, cvars, ovars, lvars, twriter>>

\* with transcript_inflight_lock: register an Event or pick up the existing
\* one; the leader goes on into the fetch loop and enters get_transcript
TElect(r) ==
    /\ pc[r] = "elect"
    /\ IF transcript_inflight_events[rkey[r]] = 0
         THEN /\ transcript_inflight_events' =
                    [transcript_inflight_events EXCEPT ![rkey[r]] = rid[r]]
              /\ revt' = [revt EXCEPT ![r] = rid[r]]
              /\ rleader' = [rleader EXCEPT ![r] = TRUE]
              /\ pc' = [pc EXCEPT ![r] = "calling"]
              /\ rcalls' = [rcalls EXCEPT ![r] = @ + 1]
         ELSE /\ revt' = [revt EXCEPT ![r] =
                              transcript_inflight_events[rkey[r]]]
              /\ pc' = [pc EXCEPT ![r] = "wait"]
              /\ UNCHANGED <<transcript_inflight_events, rleader, rcalls>>
    /\ UNCHANGED <<transcript_cache, transcript_db, tevset, rkey,
                   rattempts, rval, rstatus, rbody, rsrc, rpre,
                   rrecent, rfresh>>
    /\ UNCHANGED <<tseen, nstarted, rid, tlast, cvars, ovars, lvars, twriter>>

\* evt.wait(timeout=30) returns because the event was set
TWaitWake(r) ==
    /\ pc[r] = "wait"
    /\ revt[r] \in tevset
    /\ pc' = [pc EXCEPT ![r] = "reMem"]
    /\ UNCHANGED <<transcript_cache, transcript_db,
                   transcript_inflight_events, tevset, rkey, rleader, revt,
                   rattempts, rval, rstatus, rbody, rsrc, rcalls, rpre,
                   rrecent, rfresh>>
    /\ UNCHANGED <<tseen, nstarted, rid, tlast, cvars, ovars, lvars, twriter>>

\* as TWaitTimeout, but evt.wait() has no timeout: it returns only once
\* the event is set
TWaitTimeout_NoTimeout(r) ==
    /\ pc[r] = "wait"
    /\ revt[r] \in tevset
    /\ pc' = [pc EXCEPT ![r] = "reMem"]
    /\ UNCHANGED <<transcript_cache, transcript_db,
                   transcript_inflight_events, tevset, rkey, rleader, revt,
                   rattempts, rval, rstatus, rbody, rsrc, rcalls, rpre,
                   rrecent, rfresh>>
    /\ UNCHANGED <<tseen, nstarted, rid, tlast, cvars, ovars, lvars, twriter>>

\* evt.wait(timeout=30) returns because the 30 s elapsed
TWaitTimeout(r) ==
    /\ pc[r] = "wait"
    /\ revt[r] \notin tevset
    /\ pc' = [pc EXCEPT ![r] = "reMem"]
    /\ UNCHANGED <<transcript_cache, transcript_db,
                   transcript_inflight_events, tevset, rkey, rleader, revt,
                   rattempts, rval, rstatus, rbody, rsrc, rcalls, rpre,
                   rrecent, rfresh>>
    /\ UNCHANGED <<tseen, nstarted, rid, tlast, cvars, ovars, lvars, twriter>>

TReMem(r) == MemLookup(r, "reMem", "reDisk")

\* after the wait a miss in both tiers falls through to the fetch loop,
\* where get_transcript is entered
TReDisk(r) == DiskLookup(r, "reDisk", "calling")

\* get_transcript returned a payload:
\* transcript_cache[cache_key] = payload
TCallReturn(r, p) ==
    /\ pc[r] = "calling"
    /\ PayloadNo(p) <= tseen + 1
    /\ tseen' = IF PayloadNo(p) > tseen THEN PayloadNo(p) ELSE tseen
    /\ rval' = [rval EXCEPT ![r] = p]
    /\ transcript_cache' =
          CachePut(transcript_cache, rkey[r], p, TRANSCRIPT_CACHE_TTL)
    /\ tlast' = [tlast EXCEPT ![rkey[r]] = p]
    /\ pc' = [pc EXCEPT ![r] = "wDisk"]
    /\ UNCHANGED <<transcript_db, transcript_inflight_events, tevset,
                   rkey, rleader, revt, rattempts, rstatus, rbody, rsrc,
                   rcalls, rpre, rrecent, rfresh>>
    /\ UNCHANGED <<nstarted, rid, cvars, ovars, lvars>>
    /\ twriter' = Wrote("mem", rkey[r], rid[r])

\* get_transcript raised NoTranscriptFound:
\* if cache_key not in transcript_cache, the marker is going to be written
TCallNoTranscript(r) ==
    /\ pc[r] = "calling"
    /\ IF CacheGet(transcript_cache, rkey[r]) = NONE
         THEN /\ pc' = [pc EXCEPT ![r] = "negMem"]
              /\ UNCHANGED <<rstatus, rbody, rsrc>>
         ELSE /\ pc' = [pc EXCEPT ![r] = "finally"]
              /\ Respond(r, 404, NONE, "fetch")
    /\ UNCHANGED <<transcript_cache, transcript_db,
                   transcript_inflight_events, tevset, rkey, rleader, revt,
                   rattempts, rval, rcalls, rpre, rrecent, rfresh>>
    /\ UNCHANGED <<tseen, nstarted, rid, tlast, cvars, ovars, lvars, twriter>>

\* get_transcript raised requests.exceptions.RequestException: attempts += 1,
\* then get_transcript is entered again (while attempts < 2), or the loop
\* is left with 404 once the retries are exhausted
TCallNetError(r) ==
    /\ pc[r] = "calling"
    /\ rattempts' = [rattempts EXCEPT ![r] = @ + 1]
    /\ IF rattempts[r] + 1 < MaxFetchAttempts
         THEN /\ rcalls' = [rcalls EXCEPT ![r] = @ + 1]
              /\ UNCHANGED <<pc, rstatus, rbody, rsrc>>
         ELSE /\ pc' = [pc EXCEPT ![r] = "finally"]
              /\ Respond(r, 404, NONE, "retry")
              /\ UNCHANGED rcalls
    /\ UNCHANGED <<transcript_cache, transcript_db,
                   transcript_inflight_events, tevset, rkey, rleader, revt,
                   rval, rpre, rrecent, rfresh>>
    /\ UNCHANGED <<tseen, nstarted, rid, tlast, cvars, ovars, lvars, twriter>>

\* get_transcript raised any other exception: 500
TCallException(r) ==
    /\ pc[r] = "calling"
    /\ pc' = [pc EXCEPT ![r] = "finally"]
    /\ Respond(r, 500, NONE, "error")
    /\ UNCHANGED <<transcript_cache, transcript_db,
                   transcript_inflight_events, tevset, rkey, rleader, revt,
                   rattempts, rval, rcalls, rpre, rrecent, rfresh>>
    /\ UNCHANGED <<tseen, nstarted, rid, tlast, cvars, ovars, lvars, twriter>>

\* as TWriteDisk, but the payload is not persisted
TWriteDisk_NoPersist(r) ==
    /\ pc[r] = "wDisk"
    /\ pc' = [pc EXCEPT ![r] = "finally"]
    /\ Respond(r, 200, rval[r], "fetch")
    /\ UNCHANGED <<transcript_cache, transcript_db,
                   transcript_inflight_events, tevset, rkey, rleader, revt,
                   rattempts, rval, rcalls, rpre, rrecent, rfresh>>
    /\ UNCHANGED <<tseen, nstarted, rid, tlast, cvars, ovars, lvars, twriter>>

\* db[cache_key] = payload; the 200 response is built
TWriteDisk(r) ==
    /\ pc[r] = "wDisk"
    /\ transcript_db' = [transcript_db EXCEPT ![rkey[r]] = rval[r]]
    /\ pc' = [pc EXCEPT ![r] = "finally"]
    /\ Respond(r, 200, rval[r], "fetch")
    /\ UNCHANGED <<transcript_cache, transcript_inflight_events, tevset,
                   rkey, rleader, revt, rattempts, rval, rcalls, rpre,
                   rrecent, rfresh>>
    /\ UNCHANGED <<tseen, nstarted, rid, cvars, ovars, lvars>>
    /\ tlast' = [tlast EXCEPT ![rkey[r]] = rval[r]]
    /\ twriter' = Wrote("disk", rkey[r], rid[r])

\* db[cache_key] = payload raises (shelve.open or the store fails): the
\* memory tier already holds the payload; except Exception answers 500
TWriteDiskFail(r) ==
    /\ pc[r] = "wDisk"
    /\ pc' = [pc EXCEPT ![r] = "finally"]
    /\ Respond(r, 500, NONE, "wfail")
    /\ UNCHANGED <<transcript_cache, transcript_db,
                   transcript_inflight_events, tevset, rkey, rleader, revt,
                   rattempts, rval, rcalls, rpre, rrecent, rfresh>>
    /\ UNCHANGED <<tseen, nstarted, rid, tlast, cvars, ovars, lvars, twriter>>

\* transcript_cache[cache_key] = "__NOT_AVAILABLE__"
TNegMem(r) ==
    /\ pc[r] = "negMem"
    /\ transcript_cache' = CachePut(transcript_cache, rkey[r], NOT_AVAILABLE,
                                    TRANSCRIPT_CACHE_TTL)
    /\ pc' = [pc EXCEPT ![r] = "negDisk"]
    /\ UNCHANGED <<transcript_db, transcript_inflight_events, tevset,
                   rkey, rleader, revt, rattempts, rval, rstatus, rbody,
                   rsrc, rcalls, rpre, rrecent, rfresh>>
    /\ UNCHANGED <<tseen, nstarted, rid, cvars, ovars, lvars>>
    /\ tlast' = [tlast EXCEPT ![rkey[r]] = NOT_AVAILABLE]
    /\ twriter' = Wrote("mem", rkey[r], rid[r])

\* db[cache_key] = "__NOT_AVAILABLE__"; the 404 response is built
TNegDisk(r) ==
    /\ pc[r] = "negDisk"
    /\ transcript_db' = [transcript_db EXCEPT ![rkey[r]] = NOT_AVAILABLE]
    /\ pc' = [pc EXCEPT ![r] = "finally"]
    /\ Respond(r, 404, NONE, "fetch")
    /\ UNCHANGED <<transcript_cache, transcript_inflight_events, tevset,
                   rkey, rleader, revt, rattempts, rval, rcalls, rpre,
                   rrecent, rfresh>>
    /\ UNCHANGED <<tseen, nstarted, rid, cvars, ovars, lvars>>
    /\ tlast' = [tlast EXCEPT ![rkey[r]] = NOT_AVAILABLE]
    /\ twriter' = Wrote("disk", rkey[r], rid[r])

\* db[cache_key] = "__NOT_AVAILABLE__" raises inside the handler of
\* NoTranscriptFound: no except clause applies, the exception leaves the
\* view after the finally block and the framework answers 500
TNegDiskFail(r) ==
    /\ pc[r] = "negDisk"
    /\ pc' = [pc EXCEPT ![r] = "finally"]
    /\ Respond(r, 500, NONE, "wfail")
    /\ UNCHANGED <<transcript_cache, transcript_db,
                   transcript_inflight_events, tevset, rkey, rleader, revt,
                   rattempts, rval, rcalls, rpre, rrecent, rfresh>>
    /\ UNCHANGED <<tseen, nstarted, rid, tlast, cvars, ovars, lvars, twriter>>

\* as TFinally, but after a 500 the entry is left in place
TFinally_KeepOnError(r) ==
    /\ pc[r] = "finally"
    /\ IF rleader[r] /\ rstatus[r] # 500
         THEN /\ transcript_inflight_events' =
                    [transcript_inflight_events EXCEPT ![rkey[r]] = 0]
              /\ tevset' = tevset \cup
                    ({transcript_inflight_events[rkey[r]]} \ {0})
         ELSE UNCHANGED <<transcript_inflight_events, tevset>>
    /\ Return(r)
    /\ UNCHANGED <<transcript_cache, transcript_db, rkey,
                   rattempts, rstatus, rbody, rsrc, rcalls, rpre, rrecent>>
    /\ UNCHANGED <<tseen, nstarted, tlast, cvars, ovars, lvars, twriter>>

\* finally: if leader: pop the in-flight entry and set its event
TFinally(r) ==
    /\ pc[r] = "finally"
    /\ IF rleader[r]
         THEN /\ transcript_inflight_events' =
                    [transcript_inflight_events EXCEPT ![rkey[r]] = 0]
              /\ tevset' = tevset \cup
                    ({transcript_inflight_events[rkey[r]]} \ {0})
         ELSE UNCHANGED <<transcript_inflight_events, tevset>>
    /\ Return(r)
    /\ UNCHANGED <<transcript_cache, transcript_db, rkey,
                   rattempts, rstatus, rbody, rsrc, rcalls, rpre, rrecent>>
    /\ UNCHANGED <<tseen, nstarted, tlast, cvars, ovars, lvars, twriter>>

\* time passes: the timer advances by one unit
Tick ==
    /\ transcript_cache' = CacheAge(transcript_cache)
    /\ rfresh' = [r \in Req |-> IF rfresh[r] > 0 THEN rfresh[r] - 1 ELSE 0]
    /\ UNCHANGED <<transcript_db,
                   transcript_inflight_events, tevset, pc, rkey, rleader,
                   revt, rattempts, rval, rstatus, rbody, rsrc, rcalls, rpre,
                   rrecent>>
    /\ UNCHANGED <<tseen, nstarted, rid, tlast, cvars, ovars, lvars>>
    /\ twriter' = [twriter EXCEPT !["mem"] =
                      [k \in Keys |-> IF transcript_cache[k].left > 1
                                        THEN twriter["mem"][k] ELSE 0]]

\* ------------------------------------------------------ /comments
COMMENT_CACHE_TTL == 2

\* comment lists a strategy can return: [] and two non-empty lists
EmptyList == <<>>
Lists == {<<"c1">>, <<"c2", "c3">>}

\* as StrategyOrder, but the yt-dlp strategies come first
StrategyOrder_YtdlpFirst ==
    <<"ytdlp-direct", "ytdlp-proxied", "downloader-direct", "downloader-proxied">>

\* comment_retrieval_strategies, in the order of the list
StrategyOrder ==
    <<"downloader-direct", "downloader-proxied", "ytdlp-direct", "ytdlp-proxied">>

\* _fetch_comments_downloader catches every exception and returns [];
\* only _fetch_comments_from_ytdlp raises PermanentCommentBlock
CanBlock(name) == name \in {"ytdlp-direct", "ytdlp-proxied"}

NoComments == [has |-> FALSE, val |-> EmptyList, left |-> 0]
NoCommentsDb == [has |-> FALSE, val |-> EmptyList]

\* TTLCache.get
CCacheHas(cache, k) == cache[k].has /\ cache[k].left > 0

\* TTLCache.__setitem__
CCachePut(cache, k, v) ==
    [cache EXCEPT ![k] = [has |-> TRUE, val |-> v, left |-> COMMENT_CACHE_TTL]]

\* the timer advances by one unit (TTLCache.expire)
CCacheAge(cache) ==
    [k \in DOMAIN cache |->
        IF cache[k].left > 1
          THEN [cache[k] EXCEPT !.left = @ - 1]
          ELSE NoComments]

FreshReq ==
    [pc |-> "idle", id |-> 0, key |-> 0, leader |-> FALSE, evt |-> 0,
     idx |-> 1, comments |-> EmptyList, log |-> <<>>, blocked |-> FALSE,
     status |-> 0, body |-> EmptyList, warning |-> FALSE, src |-> NONE,
     pre |-> {}, recent |-> {}, fresh |-> 0]

CInit ==
    /\ comment_cache = [k \in Keys |-> NoComments]
    /\ comment_db = [k \in Keys |-> NoCommentsDb]
    /\ comment_inflight_events = [k \in Keys |-> 0]
    /\ cevset = {}
    /\ cnstarted = 0
    /\ creq = [r \in Req |-> FreshReq]

\* the handler thread r moves to position p with the given response
CRespond(rec, status, body, warning, src) ==
    [rec EXCEPT !.status = status, !.body = body, !.warning = warning,
                !.src = src]

\* the handler returns: its locals go away, the response stays
CReturn(rec) ==
    [rec EXCEPT !.pc = "done", !.fresh = COMMENT_CACHE_TTL, !.leader = FALSE,
                !.evt = 0, !.idx = 1, !.comments = EmptyList, !.log = <<>>]

\* A /comments request with a valid video id arrives on a free thread.
CStart(r, k) ==
    /\ creq[r].pc \in {"idle", "done"}
    /\ \A q \in Req : q < r => creq[q].pc # "idle"
    /\ creq[r].pc = "done" => \A q \in Req : creq[q].pc # "idle"
    /\ cnstarted < MaxCommentRequests
    /\ cnstarted' = cnstarted + 1
    /\ creq' = [q \in Req |->
          IF q = r
            THEN [FreshReq EXCEPT
                    !.pc = "chkMem", !.id = cnstarted + 1, !.key = k,
                    !.pre = {x \in Req \ {r} :
                                creq[x].pc = "done" /\ creq[x].key = k},
                    !.recent = {x \in Req \ {r} :
                                creq[x].pc = "done" /\ creq[x].key = k
                                /\ creq[x].fresh > 0}]
            ELSE [creq[q] EXCEPT !.pre = @ \ {r}, !.recent = @ \ {r}]]
    /\ UNCHANGED <<comment_cache, comment_db, comment_inflight_events, cevset,
                   tvars, ovars, lvars>>

\* a /comments request without a videoId, or with one from which no id
\* can be extracted: 400, before anything else is looked at
CBadRequest(r, why) ==
    /\ creq[r].pc \in {"idle", "done"}
    /\ \A q \in Req : q < r => creq[q].pc # "idle"
    /\ creq[r].pc = "done" => \A q \in Req : creq[q].pc # "idle"
    /\ cnstarted < MaxCommentRequests
    /\ BadIds(why) # {}
    /\ cnstarted' = cnstarted + 1
    /\ creq' = [q \in Req |->
          IF q = r
            THEN [FreshReq EXCEPT
                    !.pc = "done", !.status = 400,
                    !.src = why,
                    !.pre = {x \in Req \ {r} : creq[x].pc = "done"}]
            ELSE [creq[q] EXCEPT !.pre = @ \ {r}, !.recent = @ \ {r}]]
    /\ UNCHANGED <<comment_cache, comment_db, comment_inflight_events, cevset,
                   tvars, ovars, lvars>>

\* _try_serve_from_cache: cached_local = comment_cache.get(video_id)
CTryMem(r) ==
    /\ creq[r].pc \in {"chkMem", "reMem"}
    /\ LET k == creq[r].key IN
       IF CCacheHas(comment_cache, k)
         THEN creq' = [creq EXCEPT ![r] =
                CReturn(CRespond(@, 200, comment_cache[k].val, FALSE, "mem"))]
         ELSE creq' = [creq EXCEPT ![r].pc =
                IF creq[r].pc = "chkMem" THEN "chkDisk" ELSE "reDisk"]
    /\ UNCHANGED <<comment_cache, comment_db, comment_inflight_events, cevset,
                   cnstarted, tvars, ovars, lvars>>

\* _try_serve_from_cache: cached_disk = db.get(video_id); on a miss the
\* first pass goes on to the election, the pass after the wait sets
\* leader = True
CTryDisk(r) ==
    /\ creq[r].pc \in {"chkDisk", "reDisk"}
    /\ LET k == creq[r].key IN
       IF comment_db[k].has
         THEN creq' = [creq EXCEPT ![r].pc = "promote",
                                   ![r].comments = comment_db[k].val]
         ELSE IF creq[r].pc = "chkDisk"
           THEN creq' = [creq EXCEPT ![r].pc = "elect"]
           ELSE creq' = [creq EXCEPT ![r].pc = "chain", ![r].leader = TRUE]
    /\ UNCHANGED <<comment_cache, comment_db, comment_inflight_events, cevset,
                   cnstarted, tvars, ovars, lvars>>

\* comment_cache[video_id] = cached_disk; return 200
CPromote(r) ==
    /\ creq[r].pc = "promote"
    /\ comment_cache' = CCachePut(comment_cache, creq[r].key, creq[r].comments)
    /\ creq' = [creq EXCEPT ![r] =
                CReturn(CRespond(@, 200, creq[r].comments, FALSE, "disk"))]
    /\ UNCHANGED <<comment_db, comment_inflight_events, cevset, cnstarted,
                   tvars, ovars, lvars>>

\* with comment_inflight_lock: register an Event or pick up the existing one
CElect(r) ==
    /\ creq[r].pc = "elect"
    /\ LET k == creq[r].key IN
       IF comment_inflight_events[k] = 0
         THEN /\ comment_inflight_events' =
                    [comment_inflight_events EXCEPT ![k] = creq[r].id]
              /\ creq' = [creq EXCEPT ![r].pc = "chain", ![r].leader = TRUE,
                                      ![r].evt = creq[r].id]
         ELSE /\ creq' = [creq EXCEPT ![r].pc = "wait",
                                      ![r].evt = comment_inflight_events[k]]
              /\ UNCHANGED comment_inflight_events
    /\ UNCHANGED <<comment_cache, comment_db, cevset, cnstarted, tvars, ovars, lvars>>

\* evt.wait(timeout=COMMENT_INFLIGHT_WAIT_SECONDS) returned True
CWaitWake(r) ==
    /\ creq[r].pc = "wait"
    /\ creq[r].evt \in cevset
    /\ creq' = [creq EXCEPT ![r].pc = "reMem"]
    /\ UNCHANGED <<comment_cache, comment_db, comment_inflight_events, cevset,
                   cnstarted, tvars, ovars, lvars>>

\* evt.wait timed out: leader = True without another cache lookup
CWaitTimeout(r) ==
    /\ creq[r].pc = "wait"
    /\ creq[r].evt \notin cevset
    /\ creq' = [creq EXCEPT ![r].pc = "chain", ![r].leader = TRUE]
    /\ UNCHANGED <<comment_cache, comment_db, comment_inflight_events, cevset,
                   cnstarted, tvars, ovars, lvars>>

\* the outcomes of one strategy call: a non-empty list, [] (also when the
\* strategy swallowed its own failure) and, for the yt-dlp strategies, an
\* exception other than a permanent block, or PermanentCommentBlock
StrategyOutcomes(name) ==
    {[kind |-> "list", val |-> l] : l \in Lists}
    \cup {[kind |-> "empty", val |-> EmptyList]}
    \cup (IF CanBlock(name)
            THEN {[kind |-> "block", val |-> EmptyList],
                  [kind |-> "exception", val |-> EmptyList]}
            ELSE {})

\* _fetch_comments_resilient: one turn of the loop over the strategies
CStrategy(r, out) ==
    /\ creq[r].pc = "chain"
    /\ LET name == StrategyOrder[creq[r].idx]
           logged == Append(creq[r].log, [name |-> name, kind |-> out.kind,
                                          val |-> out.val])
       IN
       /\ out \in StrategyOutcomes(name)
       /\ creq' = [creq EXCEPT ![r] =
            IF out.kind = "list"
              THEN [@ EXCEPT !.log = logged, !.comments = out.val,
                             !.pc = "wMem"]
            ELSE IF out.kind = "block"
              THEN [@ EXCEPT !.log = logged, !.blocked = TRUE,
                             !.comments = EmptyList, !.pc = "wMem"]
            ELSE IF creq[r].idx < Len(StrategyOrder)
              THEN [@ EXCEPT !.log = logged, !.idx = @ + 1]
              ELSE [@ EXCEPT !.log = logged, !.comments = EmptyList,
                             !.pc = "wMem"]]
    /\ UNCHANGED <<comment_cache, comment_db, comment_inflight_events, cevset,
                   cnstarted, tvars, ovars, lvars>>

\* comment_cache[video_id] = comments
CWriteMem(r) ==
    /\ creq[r].pc = "wMem"
    /\ comment_cache' = CCachePut(comment_cache, creq[r].key, creq[r].comments)
    /\ creq' = [creq EXCEPT ![r].pc = "wDisk"]
    /\ UNCHANGED <<comment_db, comment_inflight_events, cevset, cnstarted,
                   tvars, ovars, lvars>>

\* db[video_id] = comments; return 200 with the comments
CWriteDisk(r) ==
    /\ creq[r].pc = "wDisk"
    /\ comment_db' = [comment_db EXCEPT ![creq[r].key] =
                        [has |-> TRUE, val |-> creq[r].comments]]
    /\ creq' = [creq EXCEPT ![r] =
            [CRespond(@, 200, creq[r].comments, FALSE, "fetch")
                EXCEPT !.pc = "finSet"]]
    /\ UNCHANGED <<comment_cache, comment_inflight_events, cevset, cnstarted,
                   tvars, ovars, lvars>>

\* the shelve write raises: except Exception answers 200 with an empty
\* list and the technical-issue warning
CWriteDiskFail(r) ==
    /\ creq[r].pc = "wDisk"
    /\ creq' = [creq EXCEPT ![r] =
            [CRespond(@, 200, EmptyList, TRUE, "error")
                EXCEPT !.pc = "finSet"]]
    /\ UNCHANGED <<comment_cache, comment_db, comment_inflight_events, cevset,
                   cnstarted, tvars, ovars, lvars>>

\* finally: if leader and evt is not None: evt.set()
CFinSet(r) ==
    /\ creq[r].pc = "finSet"
    /\ IF creq[r].leader /\ creq[r].evt # 0
         THEN cevset' = cevset \cup {creq[r].evt}
         ELSE UNCHANGED cevset
    /\ creq' = [creq EXCEPT ![r].pc = "finPop"]
    /\ UNCHANGED <<comment_cache, comment_db, comment_inflight_events,
                   cnstarted, tvars, ovars, lvars>>

\* finally: with comment_inflight_lock: pop the entry if it is still evt
CFinPop(r) ==
    /\ creq[r].pc = "finPop"
    /\ IF creq[r].leader /\ creq[r].evt # 0
          /\ comment_inflight_events[creq[r].key] = creq[r].evt
         THEN comment_inflight_events' =
                [comment_inflight_events EXCEPT ![creq[r].key] = 0]
         ELSE UNCHANGED comment_inflight_events
    /\ creq' = [creq EXCEPT ![r] = CReturn(@)]
    /\ UNCHANGED <<comment_cache, comment_db, cevset, cnstarted, tvars, ovars, lvars>>

\* time passes: the timer advances by one unit
CTick ==
    /\ comment_cache' = CCacheAge(comment_cache)
    /\ creq' = [r \in Req |->
          [creq[r] EXCEPT !.fresh = IF @ > 0 THEN @ - 1 ELSE 0]]
    /\ UNCHANGED <<comment_db, comment_inflight_events, cevset, cnstarted,
                   tvars, ovars, lvars>>

AllOutcomes == UNION {StrategyOutcomes(StrategyOrder[i]) : i \in 1..4}

CNext ==
    \/ \E r \in Req, k \in Keys : CStart(r, k)
    \/ \E r \in Req, why \in BadIdKinds : CBadRequest(r, why)
    \/ \E r \in Req : CTryMem(r)
    \/ \E r \in Req : CTryDisk(r)
    \/ \E r \in Req : CPromote(r)
    \/ \E r \in Req : CElect(r)
    \/ \E r \in Req : CWaitWake(r)
    \/ \E r \in Req : CWaitTimeout(r)
    \/ \E r \in Req, out \in AllOutcomes : CStrategy(r, out)
    \/ \E r \in Req : CWriteMem(r)
    \/ \E r \in Req : CWriteDisk(r)
    \/ \E r \in Req : CWriteDiskFail(r)
    \/ \E r \in Req : CFinSet(r)
    \/ \E r \in Req : CFinPop(r)
    \/ CTick

\* ------------------------------------------------------ get_transcript
TRANSCRIPT_PROXY_ATTEMPTS_PER_PROVIDER == 2
TRANSCRIPT_PROXY_FAILURE_THRESHOLD == 2
TRANSCRIPT_PROXY_COOLDOWN_SECONDS == 2

Providers == 1..NProviders

\* A text is the sequence of its non-blank pieces: the empty sequence is
\* the empty string, also after strip().
NonBlank(s) == s # ""
JoinStrip(segs) == SelectSeq(segs, NonBlank)

NoResult == [kind |-> "none", text |-> <<>>, code |-> ""]
Raised == [kind |-> "raise", text |-> <<>>, code |-> ""]

\* make_transcript_payload: language code and label fall back to "unknown"
make_transcript_payload(text, language_code) ==
    [kind |-> "payload", text |-> text,
     code |-> IF language_code = "" THEN "unknown" ELSE language_code]

\* make_fallback_payload: the code is the base of the first requested
\* language, "unknown" without one
make_fallback_payload(text, languages) ==
    make_transcript_payload(text,
        IF languages # <<>> /\ languages[1] # "" THEN languages[1] ELSE "")

\* what the upstream gave one call of the primary adapter: ft is "error"
\* when the library raised inside the try block, "missing" when no track
\* was fetched and nothing was raised, "fetched" with segments and a
\* language code otherwise
ApiInputs ==
    {[ft |-> "error", segs |-> <<>>, code |-> ""],
     [ft |-> "missing", segs |-> <<>>, code |-> ""]}
    \cup {[ft |-> "fetched", segs |-> sg, code |-> c] :
            sg \in {<<"">>, <<"", "hi">>}, c \in {"", "en"}}

\* fetch_api_once: None on an exception inside the try block; iterating
\* over ft = None raises; an empty joined text gives None
fetch_api_once(inp) ==
    IF inp.ft = "error" THEN NoResult
    ELSE IF inp.ft = "missing" THEN Raised
    ELSE IF JoinStrip(inp.segs) = <<>> THEN NoResult
    ELSE make_transcript_payload(JoinStrip(inp.segs), inp.code)

\* one timedtext track body: _timedtext_fetch_vtt returns out or None, and
\* the caller builds a payload only "if out"; the code is a listed
\* lang_code or a requested base, never empty
TimedtextInputs ==
    {[lines |-> ls, code |-> "en"] : ls \in {<<"">>, <<"hi">>}}

timedtext_try_languages(inp) ==
    IF JoinStrip(inp.lines) = <<>> THEN NoResult
    ELSE make_transcript_payload(JoinStrip(inp.lines), inp.code)

\* the subtitle file yt-dlp wrote: absent, or its lines after the
\* header/timing filter; languages is the caller's list
YtdlpInputs ==
    {[file |-> f, lines |-> ls, languages |-> lg] :
        f \in {TRUE}, ls \in {<<>>, <<"hi">>}, lg \in {<<"es">>}}
    \cup {[file |-> FALSE, lines |-> <<>>, languages |-> <<>>]}

\* fetch_ytdlp: None without a file; otherwise the joined lines go into
\* make_fallback_payload without a check of the text
fetch_ytdlp(inp) ==
    IF ~inp.file THEN NoResult
    ELSE make_fallback_payload(JoinStrip(inp.lines), inp.languages)

\* "if txt": a payload dict is truthy whatever its text
Truthy(res) == res.kind = "payload"

\* TranscriptProxyProvider.is_available
is_available(p) == cooldown_left[p] = 0

\* sorted(TRANSCRIPT_PROXY_PROVIDERS, key=cooldown_until): ascending and
\* stable
SortedByCooldown(ps) ==
    CHOOSE s \in [1..Len(ps) -> Providers] :
        /\ \A p \in Providers : (\E i \in 1..Len(ps) : ps[i] = p)
                                  <=> (\E i \in 1..Len(ps) : s[i] = p)
        /\ \A i, j \in 1..Len(ps) : i < j =>
              \/ cooldown_left[s[i]] < cooldown_left[s[j]]
              \/ cooldown_left[s[i]] = cooldown_left[s[j]] /\ s[i] < s[j]

\* as _select_transcript_proxy_providers, but the providers are left in
\* their configured order when all are cooling down
select_transcript_proxy_providers_Unsorted ==
    LET ps == TRANSCRIPT_PROXY_PROVIDERS
        available == SelectSeq(ps, is_available)
    IN IF ps = <<>> THEN <<>>
       ELSE IF available # <<>> THEN available
       ELSE ps

\* _select_transcript_proxy_providers
select_transcript_proxy_providers ==
    LET ps == TRANSCRIPT_PROXY_PROVIDERS
        available == SelectSeq(ps, is_available)
    IN IF ps = <<>> THEN <<>>
       ELSE IF available # <<>> THEN available
       ELSE SortedByCooldown(ps)

\* as record_success, but a cooldown that is running is left to run
record_success_KeepCooldown(p) ==
    /\ failure_count' = [failure_count EXCEPT ![p] = 0]
    /\ UNCHANGED cooldown_left
    /\ nfailures' = [nfailures EXCEPT ![p] = 0]
    /\ ncooldowns' = [ncooldowns EXCEPT ![p] = 0]

\* record_success, under the provider's lock
record_success(p) ==
    /\ failure_count' = [failure_count EXCEPT ![p] = 0]
    /\ cooldown_left' = [cooldown_left EXCEPT ![p] = 0]
    /\ nfailures' = [nfailures EXCEPT ![p] = 0]
    /\ ncooldowns' = [ncooldowns EXCEPT ![p] = 0]

\* as EntersCooldown, but the threshold has to be exceeded
EntersCooldown_Late(p) ==
    failure_count[p] + 1 > TRANSCRIPT_PROXY_FAILURE_THRESHOLD

\* record_failure: self._failure_count += 1;
\* if self._failure_count >= TRANSCRIPT_PROXY_FAILURE_THRESHOLD
EntersCooldown(p) ==
    failure_count[p] + 1 >= TRANSCRIPT_PROXY_FAILURE_THRESHOLD

\* as record_failure, but the counter is not reset with the cooldown
record_failure_NoReset(p) ==
    /\ nfailures' = [nfailures EXCEPT ![p] = @ + 1]
    /\ failure_count' = [failure_count EXCEPT ![p] = @ + 1]
    /\ IF EntersCooldown(p)
         THEN /\ cooldown_left' = [cooldown_left EXCEPT
                                     ![p] = TRANSCRIPT_PROXY_COOLDOWN_SECONDS]
              /\ ncooldowns' = [ncooldowns EXCEPT ![p] = @ + 1]
         ELSE UNCHANGED <<cooldown_left, ncooldowns>>

\* record_failure, under the provider's lock; what it returns is
\* EntersCooldown(p)
record_failure(p) ==
    /\ nfailures' = [nfailures EXCEPT ![p] = @ + 1]
    /\ IF EntersCooldown(p)
         THEN /\ cooldown_left' = [cooldown_left EXCEPT
                                     ![p] = TRANSCRIPT_PROXY_COOLDOWN_SECONDS]
              /\ failure_count' = [failure_count EXCEPT ![p] = 0]
              /\ ncooldowns' = [ncooldowns EXCEPT ![p] = @ + 1]
         ELSE /\ failure_count' = [failure_count EXCEPT ![p] = @ + 1]
              /\ UNCHANGED <<cooldown_left, ncooldowns>>

Tasks == {"timedtext", "yt-dlp_no_proxy"}

\* as fallback_attempts, but timedtext is left at its default allow_proxy
fallback_attempts_DefaultProxy ==
    {[step |-> "timedtext", allow_proxy |-> TRUE, proxy_url |-> NONE],
     [step |-> "yt-dlp_no_proxy", allow_proxy |-> FALSE, proxy_url |-> NONE]}

\* fallback_attempts: the two lambdas with the arguments they pass on,
\* allow_proxy to timedtext_try_languages and proxy_url to fetch_ytdlp
fallback_attempts ==
    {[step |-> "timedtext", allow_proxy |-> FALSE, proxy_url |-> NONE],
     [step |-> "yt-dlp_no_proxy", allow_proxy |-> FALSE, proxy_url |-> NONE]}

\* whether a fallback task may send a request through a proxy:
\* timedtext_try_languages does so only under "allow_proxy and
\* get_proxy_dict()", fetch_ytdlp only with a proxy_url
MayUseProxy(t) == t.allow_proxy \/ t.proxy_url # NONE

\* plog: per provider of the sequence reached so far, the number of
\* attempts that ended without a payload and whether it was skipped;
\* fb: the fallback tasks have been submitted; fbargs: their arguments;
\* entered_cooldown: what the latest record_failure returned;
\* cut_cooldown: record_success was called on a provider cooling down;
\* attempt_status: attempt_info["status"] of the attempt that just ended
FreshCall ==
    [pc |-> "idle", seq |-> <<>>, idx |-> 1, attempt |-> 1,
     running |-> {}, completed |-> <<>>,
     result |-> NoResult, via |-> NONE,
     plog |-> <<>>, fb |-> FALSE, fbargs |-> {},
     entered_cooldown |-> FALSE, cut_cooldown |-> FALSE,
     attempt_status |-> NONE]

\* the entry of the provider whose turn begins
ProviderLog(p, skipped) == [p |-> p, n |-> 0, skipped |-> skipped]

\* the call is over: a payload or an exception for the caller, the locals
\* are gone
Returned(res, via) ==
    [FreshCall EXCEPT !.pc = "done", !.result = res, !.via = via]

\* as Returned, for a call that had submitted the fallback tasks
ReturnedAfterFallback(res, via) ==
    [Returned(res, via) EXCEPT !.fb = TRUE]

OInit ==
    /\ failure_count = [p \in Providers |-> 0]
    /\ cooldown_left = [p \in Providers |-> 0]
    /\ nfailures = [p \in Providers |-> 0]
    /\ ncooldowns = [p \in Providers |-> 0]
    /\ onstarted = 0
    /\ oreq = [g \in Req |-> FreshCall]

\* get_transcript is called on a free thread
OStart(g) ==
    /\ oreq[g].pc \in {"idle", "done"}
    /\ \A q \in Req : q < g => oreq[q].pc # "idle"
    /\ oreq[g].pc = "done" => \A q \in Req : oreq[q].pc # "idle"
    /\ onstarted < MaxCalls
    /\ onstarted' = onstarted + 1
    /\ oreq' = [oreq EXCEPT ![g] = [FreshCall EXCEPT !.pc = "select"]]
    /\ UNCHANGED <<TRANSCRIPT_PROXY_PROVIDERS, failure_count, cooldown_left,
                   tvars, cvars, lvars, nfailures, ncooldowns>>

\* provider_sequence = _select_transcript_proxy_providers()
OSelect(g) ==
    /\ oreq[g].pc = "select"
    /\ LET sq == select_transcript_proxy_providers IN
       oreq' = [oreq EXCEPT ![g].seq = sq,
                            ![g].pc = IF sq # <<>> THEN "provider"
                                                   ELSE "direct"]
    /\ UNCHANGED <<TRANSCRIPT_PROXY_PROVIDERS, failure_count, cooldown_left,
                   onstarted, tvars, cvars, lvars, nfailures, ncooldowns>>

\* for idx, provider in enumerate(provider_sequence): a provider that is
\* not available is skipped unless it is the first of the sequence
OProvider(g) ==
    /\ oreq[g].pc = "provider"
    /\ IF oreq[g].idx > Len(oreq[g].seq)
         THEN oreq' = [oreq EXCEPT ![g].pc = "fallback"]
         ELSE IF ~is_available(oreq[g].seq[oreq[g].idx]) /\ oreq[g].idx > 1
           THEN oreq' = [oreq EXCEPT
                    ![g].idx = @ + 1,
                    ![g].plog = Append(@, ProviderLog(
                                    oreq[g].seq[oreq[g].idx], TRUE))]
           ELSE oreq' = [oreq EXCEPT
                    ![g].pc = "attempt", ![g].attempt = 1,
                    ![g].plog = Append(@, ProviderLog(
                                    oreq[g].seq[oreq[g].idx], FALSE))]
    /\ UNCHANGED <<TRANSCRIPT_PROXY_PROVIDERS, failure_count, cooldown_left,
                   onstarted, tvars, cvars, lvars, nfailures, ncooldowns>>

\* as OAttemptBegin, but the range of the loop is one attempt longer
OAttemptBegin_OneMore(g) ==
    /\ oreq[g].pc = "attempt"
    /\ IF oreq[g].attempt > TRANSCRIPT_PROXY_ATTEMPTS_PER_PROVIDER + 1
         THEN oreq' = [oreq EXCEPT ![g].pc = "provider", ![g].idx = @ + 1,
                                   ![g].attempt_status = NONE]
         ELSE oreq' = [oreq EXCEPT ![g].pc = "inAttempt",
                                   ![g].attempt_status = NONE]
    /\ UNCHANGED <<TRANSCRIPT_PROXY_PROVIDERS, failure_count, cooldown_left,
                   onstarted, tvars, cvars, lvars, nfailures, ncooldowns>>

\* for attempt in range(1, ATTEMPTS_PER_PROVIDER + 1): fetch_api_once is
\* entered with the provider's proxy, or the provider's turn ends
OAttemptBegin(g) ==
    /\ oreq[g].pc = "attempt"
    /\ IF oreq[g].attempt > TRANSCRIPT_PROXY_ATTEMPTS_PER_PROVIDER
         THEN oreq' = [oreq EXCEPT ![g].pc = "provider", ![g].idx = @ + 1,
                                   ![g].attempt_status = NONE]
         ELSE oreq' = [oreq EXCEPT ![g].pc = "inAttempt",
                                   ![g].attempt_status = NONE]
    /\ UNCHANGED <<TRANSCRIPT_PROXY_PROVIDERS, failure_count, cooldown_left,
                   onstarted, tvars, cvars, lvars, nfailures, ncooldowns>>

\* fetch_api_once came back: record_success and return on a payload,
\* record_failure on None or an exception
OAttemptEnd(g, inp) ==
    /\ oreq[g].pc = "inAttempt"
    /\ LET p == oreq[g].seq[oreq[g].idx]
           txt == fetch_api_once(inp)
       IN IF Truthy(txt)
            THEN /\ record_success(p)
                 /\ oreq' = [oreq EXCEPT ![g] =
                        [(IF oreq[g].fb
                            THEN ReturnedAfterFallback(txt, "api")
                            ELSE Returned(txt, "api"))
                         EXCEPT !.cut_cooldown = ~is_available(p),
                                !.attempt_status = "success"]]
            ELSE /\ record_failure(p)
                 /\ oreq' = [oreq EXCEPT
                        ![g].pc = "attempt",
                        ![g].attempt = @ + 1,
                        ![g].entered_cooldown = EntersCooldown(p),
                        ![g].attempt_status =
                            IF txt = Raised THEN "exception" ELSE "empty",
                        ![g].plog[Len(oreq[g].plog)].n = @ + 1]
    /\ UNCHANGED <<TRANSCRIPT_PROXY_PROVIDERS, onstarted, tvars, cvars, lvars>>

\* no provider is configured: one direct call of fetch_api_once
ODirect(g, inp) ==
    /\ oreq[g].pc = "direct"
    /\ LET txt == fetch_api_once(inp) IN
       IF Truthy(txt)
         THEN oreq' = [oreq EXCEPT ![g] = Returned(txt, "api")]
         ELSE IF txt = Raised
           THEN oreq' = [oreq EXCEPT ![g] = Returned(Raised, "api")]
           ELSE oreq' = [oreq EXCEPT
                    ![g].pc = "fallback",
                    ![g].plog = <<[ProviderLog(0, FALSE) EXCEPT !.n = 1]>>]
    /\ UNCHANGED <<TRANSCRIPT_PROXY_PROVIDERS, failure_count, cooldown_left,
                   onstarted, tvars, cvars, lvars, nfailures, ncooldowns>>

\* executor.submit for both fallback attempts
OFallbackStart(g) ==
    /\ oreq[g].pc = "fallback"
    /\ oreq' = [oreq EXCEPT ![g].pc = "as_completed", ![g].running = Tasks,
                            ![g].fb = TRUE, ![g].fbargs = fallback_attempts]
    /\ UNCHANGED <<TRANSCRIPT_PROXY_PROVIDERS, failure_count, cooldown_left,
                   onstarted, tvars, cvars, lvars, nfailures, ncooldowns>>

\* a fallback task finishes in its worker thread
OTaskEnd(g, t, res) ==
    /\ oreq[g].pc \in {"as_completed", "shutdown"}
    /\ t \in oreq[g].running
    /\ oreq' = [oreq EXCEPT ![g].running = @ \ {t},
                            ![g].completed = Append(@, [step |-> t,
                                                        res |-> res])]
    /\ UNCHANGED <<TRANSCRIPT_PROXY_PROVIDERS, failure_count, cooldown_left,
                   onstarted, tvars, cvars, lvars, nfailures, ncooldowns>>

OTimedtextEnd(g, inp) ==
    OTaskEnd(g, "timedtext", timedtext_try_languages(inp))

OYtdlpEnd(g, inp) == OTaskEnd(g, "yt-dlp_no_proxy", fetch_ytdlp(inp))

\* for future in as_completed(future_map, timeout=12): the next completed
\* future is taken; a payload is returned, anything else is passed over;
\* after the last future the loop ends
OAsCompleted(g) ==
    /\ oreq[g].pc = "as_completed"
    /\ IF oreq[g].completed # <<>>
         THEN LET f == Head(oreq[g].completed) IN
              IF Truthy(f.res)
                THEN oreq' = [oreq EXCEPT ![g].pc = "shutdown",
                                          ![g].completed = Tail(@),
                                          ![g].result = f.res,
                                          ![g].via = f.step]
                ELSE oreq' = [oreq EXCEPT ![g].completed = Tail(@)]
         ELSE /\ oreq[g].running = {}
              /\ oreq' = [oreq EXCEPT ![g].pc = "shutdown"]
    /\ UNCHANGED <<TRANSCRIPT_PROXY_PROVIDERS, failure_count, cooldown_left,
                   onstarted, tvars, cvars, lvars, nfailures, ncooldowns>>

\* except TimeoutError: the 12 s passed with a task still running
OTimeout(g) ==
    /\ oreq[g].pc = "as_completed"
    /\ oreq[g].completed = <<>>
    /\ oreq[g].running # {}
    /\ oreq' = [oreq EXCEPT ![g].pc = "shutdown"]
    /\ UNCHANGED <<TRANSCRIPT_PROXY_PROVIDERS, failure_count, cooldown_left,
                   onstarted, tvars, cvars, lvars, nfailures, ncooldowns>>

\* the with block of the executor ends: shutdown(wait=True) returns once
\* both tasks have finished; then the payload is returned or "raise
\* NoTranscriptFound" is executed.  The class is raised without arguments:
\* what leaves is NoTranscriptFound when the library builds it so, and a
\* TypeError when its constructor insists on its arguments.
OShutdown(g, exc) ==
    /\ oreq[g].pc = "shutdown"
    /\ oreq[g].running = {}
    /\ exc \in {"NoTranscriptFound", "TypeError"}
    /\ oreq' = [oreq EXCEPT ![g] =
                  IF Truthy(oreq[g].result)
                    THEN ReturnedAfterFallback(oreq[g].result, oreq[g].via)
                    ELSE ReturnedAfterFallback(Raised, exc)]
    /\ UNCHANGED <<TRANSCRIPT_PROXY_PROVIDERS, failure_count, cooldown_left,
                   onstarted, tvars, cvars, lvars, nfailures, ncooldowns>>

\* time passes: every cooldown is one unit closer to its end
OTick ==
    /\ \E p \in Providers : cooldown_left[p] > 0
    /\ cooldown_left' = [p \in Providers |->
                            IF cooldown_left[p] > 0 THEN cooldown_left[p] - 1
                                                    ELSE 0]
    /\ UNCHANGED <<TRANSCRIPT_PROXY_PROVIDERS, failure_count, onstarted,
                   oreq, tvars, cvars, lvars, nfailures, ncooldowns>>

ONext ==
    \/ \E g \in Req : OStart(g)
    \/ \E g \in Req : OSelect(g)
    \/ \E g \in Req : OProvider(g)
    \/ \E g \in Req : OAttemptBegin(g)
    \/ \E g \in Req, inp \in ApiInputs : OAttemptEnd(g, inp)
    \/ \E g \in Req, inp \in ApiInputs : ODirect(g, inp)
    \/ \E g \in Req : OFallbackStart(g)
    \/ \E g \in Req, inp \in TimedtextInputs : OTimedtextEnd(g, inp)
    \/ \E g \in Req, inp \in YtdlpInputs : OYtdlpEnd(g, inp)
    \/ \E g \in Req : OAsCompleted(g)
    \/ \E g \in Req : OTimeout(g)
    \/ \E g \in Req, exc \in {"NoTranscriptFound", "TypeError"} :
          OShutdown(g, exc)
    \/ OTick

\* ------------------------------------------------------ languages
\* TRANSCRIPT_LANGS: the head of the configured default list
TRANSCRIPT_LANGS == <<"en", "es", "pt">>
MAX_TIMEDTEXT_LANGS == 3

EnglishTags == {"en", "en-US", "en-GB", "en-IN"}

\* mapping.get(c, [c]) of expand_preferred_langs, for the codes used here
Variants(c) ==
    CASE c = "es" -> <<"es", "es-419", "es-ES", "es-MX", "es-AR", "es-CL",
                       "es-CO", "es-PE", "es-VE">>
      [] c = "pt" -> <<"pt", "pt-BR", "pt-PT">>
      [] c = "en" -> <<"en", "en-US", "en-GB", "en-IN">>
      [] OTHER -> <<c>>

\* the tokens a caller may put between the commas of languages=...
RawTokens == {"es", "ES", " pt", "en", "fr", "", " "}

\* c.strip().lower()
StripLower(t) ==
    CASE t = "ES" -> "es"
      [] t = " pt" -> "pt"
      [] t = " " -> ""
      [] OTHER -> t

\* (c or '').strip() on codes that are already normalised
Strip(t) == IF t = " " THEN "" ELSE IF t = " pt" THEN "pt" ELSE t

\* code.split('-')[0]
BaseOf(t) ==
    IF \E i \in 1..Len(Variants("es")) : Variants("es")[i] = t THEN "es"
    ELSE IF \E i \in 1..Len(Variants("pt")) : Variants("pt")[i] = t THEN "pt"
    ELSE IF t \in EnglishTags THEN "en"
    ELSE t

InSeq(x, sq) == \E i \in 1..Len(sq) : sq[i] = x

\* the loop "if not c or c in seen: continue; append": first occurrences
\* of the non-empty items, in order
Uniq(sq) ==
    LET keep == {i \in 1..Len(sq) :
                    sq[i] # "" /\ \A j \in 1..(i - 1) : sq[j] # sq[i]}
        nth(k) == CHOOSE i \in keep : Cardinality({j \in keep : j <= i}) = k
    IN [k \in 1..Cardinality(keep) |-> sq[nth(k)]]

\* the variants of the codes of a list, one after the other
RECURSIVE AllVariants(_)
AllVariants(codes) ==
    IF codes = <<>> THEN <<>>
    ELSE Variants(Head(codes)) \o AllVariants(Tail(codes))

NotEn(c) == c # "en"

\* expand_preferred_langs
expand_preferred_langs(codes, force_en_first) ==
    LET cs == IF codes = <<>> THEN TRANSCRIPT_LANGS ELSE codes
        ordered0 == Uniq([i \in 1..Len(cs) |-> Strip(cs[i])])
        ordered == IF force_en_first /\ InSeq("en", ordered0)
                     THEN <<"en">> \o SelectSeq(ordered0, NotEn)
                     ELSE ordered0
    IN Uniq(AllVariants(ordered))

\* the languages parameter: absent, or its comma-separated tokens ("" is
\* the one token of the empty string)
NoParam == <<"-">>
RawLangs ==
    {NoParam, <<"">>, <<"es">>, <<"ES", " pt">>, <<"es", "en">>, <<"fr">>,
     <<"", " ">>, <<"en">>, <<"es", "es">>}

\* "if raw_langs": the parameter is present and not the empty string
RawGiven(raw_langs) == raw_langs # NoParam /\ raw_langs # <<"">>

\* base_list of the endpoint: tokens stripped, lowered and de-duplicated
base_list(raw_langs) ==
    Uniq([i \in 1..Len(raw_langs) |-> StripLower(raw_langs[i])])

\* what _parse_accept_language_header returns for the request's header
AcceptBases == {<<>>, <<"es">>, <<"en", "es">>}

\* as ResolveLanguages, but English is appended to the caller's codes as
\* it is to the codes inferred from the header
ResolveLanguages_AppendEn(raw_langs, inferred_bases) ==
    IF RawGiven(raw_langs)
      THEN expand_preferred_langs(base_list(raw_langs) \o <<"en">>, FALSE)
    ELSE IF inferred_bases # <<>> /\ inferred_bases[1] # "en"
      THEN expand_preferred_langs(
             IF InSeq("en", inferred_bases) THEN inferred_bases
             ELSE Append(inferred_bases, "en"), FALSE)
    ELSE expand_preferred_langs(TRANSCRIPT_LANGS, TRUE)

\* get_transcript_endpoint: the languages handed to get_transcript
ResolveLanguages(raw_langs, inferred_bases) ==
    IF RawGiven(raw_langs)
      THEN expand_preferred_langs(base_list(raw_langs), FALSE)
    ELSE IF inferred_bases # <<>> /\ inferred_bases[1] # "en"
      THEN expand_preferred_langs(
             IF InSeq("en", inferred_bases) THEN inferred_bases
             ELSE Append(inferred_bases, "en"), FALSE)
    ELSE expand_preferred_langs(TRANSCRIPT_LANGS, TRUE)

\* ---- the caption tracks of a video
Track(code, gen, tr) ==
    [code |-> code, generated |-> gen, translatable |-> tr]
NoTrack == Track("", FALSE, FALSE)

\* the text of a track in a language, and of a translation into it
TextIn(code) ==
    CASE BaseOf(code) = "en" -> "hello"
      [] BaseOf(code) = "es" -> "hola"
      [] BaseOf(code) = "pt" -> "ola"
      [] OTHER -> "salut"

\* the track lists of the videos: en manual + en asr; one translatable en
\* track; an es-ES manual track with en asr; one en track that is not
\* translatable; no captions
Videos ==
    {<<Track("en", FALSE, TRUE), Track("en", TRUE, TRUE)>>,
     <<Track("en", FALSE, TRUE)>>,
     <<Track("es-ES", FALSE, TRUE), Track("en", TRUE, FALSE)>>,
     <<Track("en", TRUE, FALSE)>>,
     <<>>}

IsManual(t) == ~t.generated
IsGenerated(t) == t.generated

\* tl.find_manually_created_transcript / find_generated_transcript: the
\* track of the first listed language that has one of the kind, NoTrack
\* when the library raises NoTranscriptFound
FindTranscript(tl, langs, gen) ==
    LET hit(l) == \E i \in 1..Len(tl) :
                     tl[i].code = l /\ tl[i].generated = gen
        idx == {i \in 1..Len(langs) : hit(langs[i])}
    IN IF idx = {} THEN NoTrack
       ELSE LET l == langs[CHOOSE i \in idx : \A j \in idx : i <= j]
            IN CHOOSE t \in {tl[i] : i \in 1..Len(tl)} :
                   t.code = l /\ t.generated = gen

\* how the upstream treats the primary adapter: it answers, list() raises
\* (blocked), or every transcript_obj.fetch() raises
ApiNets == {"ok", "list_fails", "fetch_fails"}

\* the selection of fetch_api_once: steps 1) to 5), giving the fetched
\* track ft, NoTrack for ft = None, or an exception inside the try block
ApiSelect(tl, langs, prefer_original, strict_languages, allow_translate, net) ==
    LET manual_list == SelectSeq(tl, IsManual)
        generated_list == SelectSeq(tl, IsGenerated)
        fetch_from_transcript(t) ==
            IF net = "fetch_fails" \/ t = NoTrack THEN NoTrack ELSE t
        first_any == IF manual_list # <<>> THEN manual_list[1]
                     ELSE IF generated_list # <<>> THEN generated_list[1]
                     ELSE NoTrack
        ft1 == IF prefer_original /\ ~strict_languages
                 THEN fetch_from_transcript(first_any) ELSE NoTrack
        ft2 == IF ft1 = NoTrack /\ langs # <<>>
                 THEN fetch_from_transcript(FindTranscript(tl, langs, FALSE))
                 ELSE ft1
        ft3 == IF ft2 = NoTrack /\ langs # <<>>
                 THEN fetch_from_transcript(FindTranscript(tl, langs, TRUE))
                 ELSE ft2
        ft4 == IF ft3 = NoTrack /\ ~strict_languages
                 THEN fetch_from_transcript(first_any) ELSE ft3
        step5 == ft4 = NoTrack /\ allow_translate /\ langs # <<>>
        translated == Track(langs[1], tl[1].generated, FALSE)
        ft5 == IF ~step5 THEN ft4
               ELSE IF tl[1].translatable
                 THEN fetch_from_transcript(translated)
                 ELSE fetch_from_transcript(tl[1])
    IN IF net = "list_fails" \/ (step5 /\ tl = <<>>)
         THEN [ft |-> "error", segs |-> <<>>, code |-> ""]
       ELSE IF ft5 = NoTrack
         THEN [ft |-> "missing", segs |-> <<>>, code |-> ""]
       ELSE [ft |-> "fetched", segs |-> <<TextIn(ft5.code)>>,
             code |-> ft5.code]

\* ---- timedtext
\* how the upstream treats timedtext: it answers, only the track list
\* fails, or nothing is served
TimedtextNets == {"ok", "list_fails", "down"}

\* _timedtext_fetch_vtt: the body of the track lang of the kind asked for,
\* translated when tlang is given; <<>> stands for None
timedtext_fetch_vtt(tl, lang, asr, tlang, up) ==
    IF up # "down" /\ \E i \in 1..Len(tl) : tl[i].code = lang /\ tl[i].generated = asr
      THEN <<TextIn(IF tlang = "" THEN lang ELSE tlang)>>
      ELSE <<>>

\* base_langs: the bases of the languages, de-duplicated and trimmed
base_langs(languages) ==
    LET ls == IF languages = <<>> THEN TRANSCRIPT_LANGS ELSE languages
        bs == Uniq([i \in 1..Len(ls) |-> BaseOf(ls[i])])
    IN IF Len(bs) > MAX_TIMEDTEXT_LANGS
         THEN SubSeq(bs, 1, MAX_TIMEDTEXT_LANGS) ELSE bs

\* the first of the pairs good (position of the base, position of the
\* track) in the order of the nested loops "for base in base_langs: for
\* code, kind in tracks"; <<0, 0>> when there is none
FirstPair(good) ==
    IF good = {} THEN <<0, 0>>
       ELSE CHOOSE q \in good : \A o \in good :
                q[1] < o[1] \/ (q[1] = o[1] /\ q[2] <= o[2])

\* code.startswith(base), for the codes used here
StartsWith(code, base) == BaseOf(code) = base \/ code = base

\* timedtext_try_languages with allow_proxy=False: the track body and the
\* code of the payload it builds (lines <<>>: it returns None)
TimedtextSelect(tl, languages, allow_translate, up) ==
    LET bases == base_langs(languages)
        tracks == IF up = "ok" THEN tl ELSE <<>>
        none == [lines |-> <<>>, code |-> ""]
        wantManual(b, t) == ~t.generated /\ StartsWith(t.code, b)
        wantAsr(b, t) == t.generated /\ StartsWith(t.code, b)
        bodyManual(t) == timedtext_fetch_vtt(tl, t.code, FALSE, "", up)
        bodyAsr(t) == timedtext_fetch_vtt(tl, t.code, TRUE, "", up)
        pairs(bs) == {<<b, i>> : b \in 1..Len(bs), i \in 1..Len(tracks)}
        m == FirstPair({q \in pairs(bases) :
                          /\ wantManual(bases[q[1]], tracks[q[2]])
                          /\ bodyManual(tracks[q[2]]) # <<>>})
        a == FirstPair({q \in pairs(bases) :
                          /\ wantAsr(bases[q[1]], tracks[q[2]])
                          /\ bodyAsr(tracks[q[2]]) # <<>>})
        target_base == bases[1]
        wantOther(b, t) == ~t.generated /\ ~StartsWith(t.code, target_base)
        bodyTr(t) == timedtext_fetch_vtt(tl, t.code, FALSE, target_base, up)
        x == FirstPair({q \in pairs(<<target_base>>) :
                          /\ wantOther(target_base, tracks[q[2]])
                          /\ bodyTr(tracks[q[2]]) # <<>>})
        bruteM == {i \in 1..Len(bases) :
                     timedtext_fetch_vtt(tl, bases[i], FALSE, "", up) # <<>>}
        bruteA == {i \in 1..Len(bases) :
                     timedtext_fetch_vtt(tl, bases[i], TRUE, "", up) # <<>>}
        least(S) == CHOOSE i \in S : \A j \in S : i <= j
    IN IF tracks # <<>> /\ m[1] # 0
         THEN [lines |-> bodyManual(tracks[m[2]]), code |-> tracks[m[2]].code]
       ELSE IF tracks # <<>> /\ a[1] # 0
         THEN [lines |-> bodyAsr(tracks[a[2]]), code |-> tracks[a[2]].code]
       ELSE IF tracks # <<>> /\ allow_translate /\ bases # <<>> /\ x[1] # 0
         THEN [lines |-> bodyTr(tracks[x[2]]), code |-> target_base]
       ELSE IF bruteM # {}
         THEN [lines |-> <<TextIn(bases[least(bruteM)])>>,
               code |-> bases[least(bruteM)]]
       ELSE IF bruteA # {}
         THEN [lines |-> <<TextIn(bases[least(bruteA)])>>,
               code |-> bases[least(bruteA)]]
       ELSE none

\* ---- yt-dlp
\* opts["subtitleslangs"] of fetch_ytdlp, as the codes whose patterns
\* "c.*" and "c" it holds: the requested codes first; then the codes of
\* languages + ["en"] that are not among them replace the list
ytdlp_subtitleslangs(languages) ==
    LET lang_list == IF languages = <<>> THEN TRANSCRIPT_LANGS ELSE languages
        first == SelectSeq([i \in 1..Len(lang_list) |-> Strip(lang_list[i])],
                           NonBlank)
        langs == IF InSeq("en", languages) THEN languages
                 ELSE Append(languages, "en")
        NotFirst(c) == c # "" /\ ~InSeq(c, first)
        sub_langs == SelectSeq([i \in 1..Len(langs) |-> Strip(langs[i])],
                               NotFirst)
    IN IF sub_langs # <<>> THEN sub_langs
       ELSE IF first # <<>> THEN first ELSE <<"en">>

\* the subtitle file yt-dlp leaves behind: that of a track matching one of
\* the patterns, when the download works
YtdlpDownload(tl, languages, up) ==
    LET pats == ytdlp_subtitleslangs(languages)
        match == {i \in 1..Len(tl) :
                    \E j \in 1..Len(pats) : StartsWith(tl[i].code, pats[j])}
    IN IF ~up \/ match = {}
         THEN [file |-> FALSE, lines |-> <<>>, languages |-> languages]
         ELSE [file |-> TRUE,
               lines |-> <<TextIn(tl[CHOOSE i \in match :
                                        \A j \in match : i <= j].code)>>,
               languages |-> languages]

\* ---- one request through the chain
FreshLang ==
    [pc |-> "idle", raw_langs |-> NoParam, tl |-> <<>>,
     languages |-> <<>>, prefer_original |-> TRUE,
     strict_languages |-> FALSE, allow_translate |-> FALSE,
     net |-> NONE, result |-> NoResult, via |-> NONE, status |-> 0]

LInit == lreq = FreshLang

\* the request's parameters are parsed and its languages resolved
LParse(raw_langs, inferred_bases, po, sl, at, tl) ==
    /\ lreq.pc = "idle"
    /\ lreq' = [FreshLang EXCEPT
                  !.pc = "primary", !.raw_langs = raw_langs, !.tl = tl,
                  !.languages = ResolveLanguages(raw_langs, inferred_bases),
                  !.prefer_original = po, !.strict_languages = sl,
                  !.allow_translate = at]
    /\ UNCHANGED <<tvars, cvars, ovars, vreq, kvars, pcall>>

\* get_transcript, primary adapter: with providers every attempt that
\* gives no payload, exception or None, leads on to the fallback; without
\* providers an exception from outside fetch_api_once's try block leaves
\* get_transcript
LPrimary(net) ==
    /\ lreq.pc = "primary"
    /\ LET txt == fetch_api_once(
                    ApiSelect(lreq.tl, lreq.languages, lreq.prefer_original,
                              lreq.strict_languages, lreq.allow_translate,
                              net))
       IN IF Truthy(txt)
            THEN lreq' = [lreq EXCEPT !.pc = "respond", !.result = txt,
                                      !.via = "api", !.net = net]
          ELSE IF txt = Raised /\ TRANSCRIPT_PROXY_PROVIDERS = <<>>
            THEN lreq' = [lreq EXCEPT !.pc = "respond", !.result = Raised,
                                      !.via = "TypeError", !.net = net]
          ELSE lreq' = [lreq EXCEPT !.pc = "fallback", !.net = net]
    /\ UNCHANGED <<tvars, cvars, ovars, vreq, kvars, pcall>>

\* get_transcript, fallback: the first completed task with a payload is
\* returned; without one, or after the timeout, "raise NoTranscriptFound"
\* is executed.  tt_raises: the task's log_event call fails in the worker
\* thread, which has no application context.
LFallback(tt_up, tt_raises, yt_up, first, exc) ==
    /\ lreq.pc = "fallback"
    /\ LET tt == IF tt_raises THEN Raised
                 ELSE timedtext_try_languages(
                        TimedtextSelect(lreq.tl, lreq.languages,
                                        lreq.allow_translate, tt_up))
           yd == fetch_ytdlp(YtdlpDownload(lreq.tl, lreq.languages, yt_up))
       IN IF first = "timedtext" /\ Truthy(tt)
            THEN lreq' = [lreq EXCEPT !.pc = "respond", !.result = tt,
                                      !.via = "timedtext"]
          ELSE IF first = "yt-dlp_no_proxy" /\ Truthy(yd)
            THEN lreq' = [lreq EXCEPT !.pc = "respond", !.result = yd,
                                      !.via = "yt-dlp_no_proxy"]
          ELSE lreq' = [lreq EXCEPT !.pc = "respond", !.result = Raised,
                                    !.via = exc]
    /\ UNCHANGED <<tvars, cvars, ovars, vreq, kvars, pcall>>

\* get_transcript_endpoint: 200 with the payload, 404 on NoTranscriptFound,
\* 500 on any other exception
LRespond ==
    /\ lreq.pc = "respond"
    /\ lreq' = [lreq EXCEPT
                  !.pc = "done",
                  !.status = IF Truthy(lreq.result) THEN 200
                             ELSE IF lreq.via = "NoTranscriptFound" THEN 404
                             ELSE 500]
    /\ UNCHANGED <<tvars, cvars, ovars, vreq, kvars, pcall>>

LNext ==
    \/ \E raw_langs \in RawLangs, inferred_bases \in AcceptBases,
          po \in BOOLEAN, sl \in BOOLEAN, at \in BOOLEAN, tl \in Videos :
          LParse(raw_langs, inferred_bases, po, sl, at, tl)
    \/ \E net \in ApiNets : LPrimary(net)
    \/ \E tt_up \in TimedtextNets, tt_raises \in BOOLEAN, yt_up \in BOOLEAN,
          first \in Tasks, exc \in {"NoTranscriptFound", "TypeError"} :
          LFallback(tt_up, tt_raises, yt_up, first, exc)
    \/ LRespond

AllProviders == [i \in 1..NProviders |-> i]

\* ---- one call of extract_video_id
NoCall == [pc |-> "idle", url_or_id |-> NoId, video_id |-> NoId]

VInit == vreq = NoCall

\* extract_video_id(url_or_id) returns
VExtract ==
    /\ vreq.pc = "called"
    /\ vreq' = [vreq EXCEPT !.pc = "returned",
                            !.video_id = extract_video_id(vreq.url_or_id)]
    /\ UNCHANGED <<tvars, cvars, ovars, lreq, kvars, pcall>>

\* ---- the provider pool on its own
\* the failures recorded in a row that are followed
MaxFailures == 4

NoProviderCall == [op |-> "none", p |-> 0, entered_cooldown |-> FALSE,
                   seq |-> <<>>]

PInit == pcall = NoProviderCall

Configured(p) ==
    \E i \in 1..Len(TRANSCRIPT_PROXY_PROVIDERS) :
        TRANSCRIPT_PROXY_PROVIDERS[i] = p

\* some thread calls provider.record_failure()
PRecordFailure(p) ==
    /\ Configured(p)
    /\ nfailures[p] < MaxFailures
    /\ record_failure(p)
    /\ pcall' = [NoProviderCall EXCEPT !.op = "record_failure", !.p = p,
                    !.entered_cooldown = EntersCooldown(p)]
    /\ UNCHANGED <<TRANSCRIPT_PROXY_PROVIDERS, onstarted, oreq, tvars,
                   cvars, lreq, vreq, kvars>>

\* some thread calls provider.record_success()
PRecordSuccess(p) ==
    /\ Configured(p)
    /\ record_success(p)
    /\ pcall' = [NoProviderCall EXCEPT !.op = "record_success", !.p = p]
    /\ UNCHANGED <<TRANSCRIPT_PROXY_PROVIDERS, onstarted, oreq, tvars,
                   cvars, lreq, vreq, kvars>>

\* some thread calls _select_transcript_proxy_providers()
PSelect ==
    /\ pcall' = [NoProviderCall EXCEPT
                    !.op = "select",
                    !.seq = select_transcript_proxy_providers]
    /\ UNCHANGED <<tvars, cvars, ovars, lreq, vreq, kvars>>

\* time.time() advances by one unit between two calls
PTick ==
    /\ \E p \in Providers : cooldown_left[p] > 0
    /\ cooldown_left' = [p \in Providers |->
                            IF cooldown_left[p] > 0 THEN cooldown_left[p] - 1
                                                    ELSE 0]
    /\ pcall' = NoProviderCall
    /\ UNCHANGED <<TRANSCRIPT_PROXY_PROVIDERS, failure_count, onstarted,
                   nfailures, ncooldowns, oreq, tvars, cvars, lreq, vreq,
                   kvars>>

PNext ==
    \/ \E p \in Providers : PRecordFailure(p)
    \/ \E p \in Providers : PRecordSuccess(p)
    \/ PSelect
    \/ PTick

\* ---- the cache keys of one video
\* cache_key: the bare video_id, or video_id::langs=<bases>
BareKey == <<"video_id">>
LangsKey(bases) == <<"video_id", "::langs=">> \o bases

\* inferred_bases after "if 'en' not in inferred_bases: append('en')"
WithEn(inferred_bases) ==
    IF InSeq("en", inferred_bases) THEN inferred_bases
    ELSE Append(inferred_bases, "en")

\* the header names a first language other than English
HeaderInferred(inferred_bases) ==
    inferred_bases # <<>> /\ inferred_bases[1] # "en"

\* get_transcript_endpoint: cache_key of the request
CacheKeyOf(raw_langs, inferred_bases) ==
    IF RawGiven(raw_langs) THEN LangsKey(base_list(raw_langs))
    ELSE IF HeaderInferred(inferred_bases)
      THEN LangsKey(WithEn(inferred_bases))
    ELSE BareKey

\* get_transcript_endpoint: legacy_fallback_allowed of the request
LegacyAllowed(raw_langs, inferred_bases) ==
    ~RawGiven(raw_langs) /\ ~HeaderInferred(inferred_bases)

CacheKeys ==
    {CacheKeyOf(raw, acc) : raw \in RawLangs, acc \in AcceptBases}

\* the requests followed
MaxKeyRequests == 3

\* the language code of the payloads: the text of an English and of a
\* Spanish track
PayloadCode(p) == IF PayloadNo(p) = 1 THEN "en" ELSE "es"

\* what get_transcript can give a request with allowTranslate=false:
\* without strict_languages any track of the video (steps 1 and 4 of the
\* primary adapter take the original), with it a track of a requested
\* language only; or NoTranscriptFound
FetchOutcomes(languages, strict_languages) ==
    {NOT_AVAILABLE}
    \cup {p \in Payloads :
            ~strict_languages \/ InSeq(PayloadCode(p), languages)}

FreshKeyReq ==
    [pc |-> "idle", raw_langs |-> NoParam, inferred_bases |-> <<>>,
     strict_languages |-> FALSE,
     cache_key |-> BareKey, legacy_fallback_allowed |-> TRUE,
     status |-> 0, body |-> NONE, readkey |-> <<>>, wrotekey |-> <<>>]

KInit ==
    /\ ktranscript_cache = [k \in CacheKeys |-> NONE]
    /\ ktranscript_db = [k \in CacheKeys |-> NONE]
    /\ knstarted = 0
    /\ kreq = FreshKeyReq

\* the response, and the key of the persistent tier it was read from or
\* written under
KRespond(status, body, readkey, wrotekey) ==
    [kreq EXCEPT !.pc = "done", !.status = status, !.body = body,
                 !.readkey = readkey, !.wrotekey = wrotekey]

\* a request for the video arrives; its languages are parsed and its
\* cache key is built
KStart(raw_langs, inferred_bases, strict_languages) ==
    /\ kreq.pc \in {"idle", "done"}
    /\ knstarted < MaxKeyRequests
    /\ knstarted' = knstarted + 1
    /\ kreq' = [FreshKeyReq EXCEPT
                  !.pc = "mem", !.raw_langs = raw_langs,
                  !.inferred_bases = inferred_bases,
                  !.strict_languages = strict_languages,
                  !.cache_key = CacheKeyOf(raw_langs, inferred_bases),
                  !.legacy_fallback_allowed =
                      LegacyAllowed(raw_langs, inferred_bases)]
    /\ UNCHANGED <<ktranscript_cache, ktranscript_db>>
    /\ UNCHANGED <<tvars, cvars, ovars, lreq, vreq, pcall>>

\* cached = transcript_cache.get(cache_key)
KMem ==
    /\ kreq.pc = "mem"
    /\ LET cached == ktranscript_cache[kreq.cache_key] IN
       kreq' = IF cached = NONE THEN [kreq EXCEPT !.pc = "disk"]
               ELSE IF cached = NOT_AVAILABLE
                 THEN KRespond(404, NONE, <<>>, <<>>)
               ELSE KRespond(200, cached, <<>>, <<>>)
    /\ UNCHANGED <<ktranscript_cache, ktranscript_db, knstarted>>
    /\ UNCHANGED <<tvars, cvars, ovars, lreq, vreq, pcall>>

\* cached = db.get(cache_key); a payload is promoted
KDisk ==
    /\ kreq.pc = "disk"
    /\ LET cached == ktranscript_db[kreq.cache_key] IN
       IF cached = NONE
         THEN /\ kreq' = [kreq EXCEPT !.pc = "legacy"]
              /\ UNCHANGED ktranscript_cache
       ELSE IF cached = NOT_AVAILABLE
         THEN /\ kreq' = KRespond(404, NONE, kreq.cache_key, <<>>)
              /\ UNCHANGED ktranscript_cache
       ELSE /\ kreq' = KRespond(200, cached, kreq.cache_key, <<>>)
            /\ ktranscript_cache' =
                  [ktranscript_cache EXCEPT ![kreq.cache_key] = cached]
    /\ UNCHANGED <<ktranscript_db, knstarted>>
    /\ UNCHANGED <<tvars, cvars, ovars, lreq, vreq, pcall>>

\* as KLegacy, but the bare key is read whatever the request's languages
KLegacy_Always ==
    /\ kreq.pc = "legacy"
    /\ LET legacy == ktranscript_db[BareKey] IN
       IF legacy = NONE
         THEN /\ kreq' = [kreq EXCEPT !.pc = "fetch"]
              /\ UNCHANGED ktranscript_cache
       ELSE IF legacy = NOT_AVAILABLE
         THEN /\ kreq' = KRespond(404, NONE, BareKey, <<>>)
              /\ UNCHANGED ktranscript_cache
       ELSE /\ kreq' = KRespond(200, legacy, BareKey, <<>>)
            /\ ktranscript_cache' =
                  [ktranscript_cache EXCEPT ![kreq.cache_key] = legacy]
    /\ UNCHANGED <<ktranscript_db, knstarted>>
    /\ UNCHANGED <<tvars, cvars, ovars, lreq, vreq, pcall>>

\* if not raw_langs and legacy_fallback_allowed: legacy = db.get(video_id);
\* a payload is promoted under cache_key
KLegacy ==
    /\ kreq.pc = "legacy"
    /\ LET legacy == ktranscript_db[BareKey] IN
       IF ~(~RawGiven(kreq.raw_langs) /\ kreq.legacy_fallback_allowed)
            \/ legacy = NONE
         THEN /\ kreq' = [kreq EXCEPT !.pc = "fetch"]
              /\ UNCHANGED ktranscript_cache
       ELSE IF legacy = NOT_AVAILABLE
         THEN /\ kreq' = KRespond(404, NONE, BareKey, <<>>)
              /\ UNCHANGED ktranscript_cache
       ELSE /\ kreq' = KRespond(200, legacy, BareKey, <<>>)
            /\ ktranscript_cache' =
                  [ktranscript_cache EXCEPT ![kreq.cache_key] = legacy]
    /\ UNCHANGED <<ktranscript_db, knstarted>>
    /\ UNCHANGED <<tvars, cvars, ovars, lreq, vreq, pcall>>

\* the fetch: get_transcript returns a payload or raises
\* NoTranscriptFound; either is stored under cache_key in both tiers
KFetch(out) ==
    /\ kreq.pc = "fetch"
    /\ out \in FetchOutcomes(ResolveLanguages(kreq.raw_langs,
                                              kreq.inferred_bases),
                              kreq.strict_languages)
    /\ ktranscript_cache' = [ktranscript_cache EXCEPT ![kreq.cache_key] = out]
    /\ ktranscript_db' = [ktranscript_db EXCEPT ![kreq.cache_key] = out]
    /\ kreq' = IF out = NOT_AVAILABLE
                 THEN KRespond(404, NONE, <<>>, kreq.cache_key)
                 ELSE KRespond(200, out, <<>>, kreq.cache_key)
    /\ UNCHANGED knstarted
    /\ UNCHANGED <<tvars, cvars, ovars, lreq, vreq, pcall>>

\* the entries of the memory tier expire, or the process starts again
KExpire ==
    /\ kreq.pc \in {"idle", "done"}
    /\ ktranscript_cache # [k \in CacheKeys |-> NONE]
    /\ ktranscript_cache' = [k \in CacheKeys |-> NONE]
    /\ UNCHANGED <<ktranscript_db, knstarted, kreq>>
    /\ UNCHANGED <<tvars, cvars, ovars, lreq, vreq, pcall>>

KNext ==
    \/ \E raw \in RawLangs, acc \in AcceptBases, sl \in BOOLEAN :
          KStart(raw, acc, sl)
    \/ KMem
    \/ KDisk
    \/ KLegacy
    \/ \E out \in Payloads \cup {NOT_AVAILABLE} : KFetch(out)
    \/ KExpire

Init ==
    /\ TInit /\ CInit /\ OInit /\ LInit /\ VInit /\ KInit /\ PInit
    /\ TRANSCRIPT_PROXY_PROVIDERS = AllProviders

\* the deployment may also run without any provider configured
InitO ==
    TInit /\ CInit /\ OInit /\ LInit /\ VInit /\ KInit /\ PInit
    /\ TRANSCRIPT_PROXY_PROVIDERS \in {<<>>, AllProviders}

Next ==
    \/ \E r \in Req, k \in Keys : TStart(r, k)
    \/ \E r \in Req, why \in BadIdKinds : TBadRequest(r, why)
    \/ \E r \in Req : TChkMem(r)
    \/ \E r \in Req : TRefreshMem(r)
    \/ \E r \in Req : TChkDisk(r)
    \/ \E r \in Req : TPromote(r)
    \/ \E r \in Req : TElect(r)
    \/ \E r \in Req : TWaitWake(r)
    \/ \E r \in Req : TWaitTimeout(r)
    \/ \E r \in Req : TReMem(r)
    \/ \E r \in Req : TReDisk(r)
    \/ \E r \in Req, p \in Payloads : TCallReturn(r, p)
    \/ \E r \in Req : TCallNoTranscript(r)
    \/ \E r \in Req : TCallNetError(r)
    \/ \E r \in Req : TCallException(r)
    \/ \E r \in Req : TWriteDisk(r)
    \/ \E r \in Req : TWriteDiskFail(r)
    \/ \E r \in Req : TNegMem(r)
    \/ \E r \in Req : TNegDisk(r)
    \/ \E r \in Req : TNegDiskFail(r)
    \/ \E r \in Req : TFinally(r)
    \/ Tick

Spec == Init /\ [][Next]_vars

SpecC == Init /\ [][CNext]_vars

SpecO == InitO /\ [][ONext]_vars

SpecL == InitO /\ [][LNext]_vars

\* extract_video_id is called with any of the parameters
InitV ==
    /\ TInit /\ CInit /\ OInit /\ LInit /\ KInit /\ PInit
    /\ TRANSCRIPT_PROXY_PROVIDERS = AllProviders
    /\ vreq \in {[NoCall EXCEPT !.pc = "called", !.url_or_id = raw] :
                    raw \in RawIds}

SpecV == InitV /\ [][VExtract]_vars

SpecK == Init /\ [][KNext]_vars

SpecP == InitO /\ [][PNext]_vars

\* the two endpoints share no state: each is followed on its own
NextE ==
    \/ cnstarted = 0 /\ Next
    \/ nstarted = 0 /\ CNext

SpecE == Init /\ [][NextE]_vars

\* the steps of the handler thread r once its request has been received
TStep(r) ==
    \/ TChkMem(r) \/ TRefreshMem(r) \/ TChkDisk(r) \/ TPromote(r)
    \/ TElect(r) \/ TWaitWake(r) \/ TWaitTimeout(r)
    \/ TReMem(r) \/ TReDisk(r)
    \/ \E p \in Payloads : TCallReturn(r, p)
    \/ TCallNoTranscript(r) \/ TCallNetError(r) \/ TCallException(r)
    \/ TWriteDisk(r) \/ TWriteDiskFail(r)
    \/ TNegMem(r) \/ TNegDisk(r) \/ TNegDiskFail(r)
    \/ TFinally(r)

CStep(r) ==
    \/ CTryMem(r) \/ CTryDisk(r) \/ CPromote(r)
    \/ CElect(r) \/ CWaitWake(r) \/ CWaitTimeout(r)
    \/ \E out \in AllOutcomes : CStrategy(r, out)
    \/ CWriteMem(r) \/ CWriteDisk(r) \/ CWriteDiskFail(r)
    \/ CFinSet(r) \/ CFinPop(r)

\* the requests followed to their end
MaxFairRequests == 2

NextEF ==
    /\ NextE
    /\ nstarted' <= MaxFairRequests
    /\ cnstarted' <= MaxFairRequests

\* the two endpoints when every handler thread keeps running and every
\* call it makes (cache, adapter, Event.wait with its timeout) returns
FairSpecE ==
    /\ Init /\ [][NextEF]_vars
    /\ \A r \in Req : WF_vars(TStep(r)) /\ WF_vars(CStep(r))

\* =================================================================
\* Properties of the /transcript endpoint (specification Spec)
\* =================================================================

\* two distinct handler threads serving the same cache key
SameKey(r1, r2) == r1 # r2 /\ rkey[r1] = rkey[r2] /\ rkey[r1] \in Keys

\* C1: for every cache key, in every reachable state, at most one request
\* is executing the upstream acquisition for the key (get_transcript for a
\* transcript key, _fetch_comments_resilient for a comment key).
C1_AtMostOneAcquisition ==
    \A k \in Keys :
        /\ Cardinality({r \in Req : pc[r] = "calling" /\ rkey[r] = k}) <= 1
        /\ Cardinality({r \in Req : creq[r].pc = "chain"
                                    /\ creq[r].key = k}) <= 1

\* C2: two concurrent /transcript requests for one key on a cold cache
\* cause exactly one call of get_transcript and receive the same response.
C2_ConcurrentColdOneFetch ==
    \A r1, r2 \in Req :
        ( /\ SameKey(r1, r2)
          /\ nstarted = 2
          /\ pc[r1] = "done" /\ pc[r2] = "done"
          /\ r1 \notin rpre[r2] /\ r2 \notin rpre[r1] )
        => /\ rcalls[r1] + rcalls[r2] = 1
           /\ rstatus[r1] = rstatus[r2]
           /\ rbody[r1] = rbody[r2]

\* r2 arrived after r1 had returned, less than a cache TTL later, and they
\* are the only two requests received
Consecutive(r1, r2) ==
    /\ SameKey(r1, r2)
    /\ nstarted = 2
    /\ pc[r1] = "done" /\ pc[r2] = "done"
    /\ r1 \in rrecent[r2]

C4_NegativeStability ==
    \A r1, r2 \in Req :
        ( /\ SameKey(r1, r2)
          /\ pc[r1] = "done" /\ rstatus[r1] = 404
          /\ r1 \in rrecent[r2] )
        => /\ rcalls[r2] = 0
           /\ pc[r2] = "done" => rstatus[r2] = 404

\* C7: every cache read of a request, in the memory or the persistent
\* tier, finds the value of the most recent completed cache write under
\* its key: the payload it goes on to return, or the marker it answers 404
\* for.
C7_CacheReadIsLastWrite ==
    [][\A r \in Req :
          /\ (pc[r] \in {"chkMem", "reMem", "chkDisk", "reDisk"}
               /\ pc'[r] \in {"refreshMem", "promote"})
             => rval'[r] = tlast[rkey[r]]
          /\ (pc[r] \in {"chkMem", "reMem", "chkDisk", "reDisk"}
               /\ pc'[r] = "done")
             => tlast[rkey[r]] = NOT_AVAILABLE]_vars

\* the entry of tier t under the key of request r is one r wrote
WrittenBy(r, t) ==
    /\ rid[r] # 0
    /\ twriter[t][rkey[r]] = rid[r]

\* C17: the first request for a key after the lifetime of its negative
\* entry has run out is not answered 404 from a cache tier but acquires
\* afresh.
C17_NegativeEntryExpires ==
    \A r1, r2 \in Req :
        ( /\ SameKey(r1, r2)
          /\ nstarted = 2
          /\ pc[r1] = "done" /\ rstatus[r1] = 404 /\ rsrc[r1] = "fetch"
          /\ pc[r2] = "done"
          /\ r1 \in rpre[r2] /\ r1 \notin rrecent[r2] )
        => /\ rsrc[r2] \notin {"mem", "disk"}
           /\ rcalls[r2] >= 1

\* C19: a request answered 500, a failed write to the persistent tier
\* after a successful fetch included, leaves no entry it wrote in the
\* memory tier or in the persistent tier.
C19_ErrorWritesNothing ==
    \A r \in Req :
        (pc[r] = "finally" /\ rstatus[r] = 500)
        => /\ ~WrittenBy(r, "mem")
           /\ ~WrittenBy(r, "disk")

\* request r wrote the marker of an unavailable transcript that tier t
\* holds under its key
WroteMarker(r, t) ==
    /\ WrittenBy(r, t)
    /\ IF t = "mem"
         THEN CacheGet(transcript_cache, rkey[r]) = NOT_AVAILABLE
         ELSE transcript_db[rkey[r]] = NOT_AVAILABLE

\* C16: the marker of an unavailable transcript is written only by a
\* request whose acquisition ended with NoTranscriptFound, and that request
\* stores it in the memory tier and in the persistent tier; a request
\* answered 500, or one that gave up after its retries, has written no
\* marker; the comment tiers hold comment lists only.
C16_MarkerOnlyOnNoTranscript ==
    /\ [][\A k \in Keys :
            /\ ( /\ transcript_cache'[k].val = NOT_AVAILABLE
                 /\ transcript_cache[k].val # NOT_AVAILABLE )
               => \E r \in Req : rkey[r] = k /\ pc[r] = "negMem"
            /\ ( /\ transcript_db'[k] = NOT_AVAILABLE
                 /\ transcript_db[k] # NOT_AVAILABLE )
               => \E r \in Req : rkey[r] = k /\ pc[r] = "negDisk"]_vars
    /\ [][\A r \in Req :
            (pc[r] = "negDisk" /\ pc'[r] # "negDisk")
            => /\ CacheGet(transcript_cache', rkey[r]) = NOT_AVAILABLE
                  \/ transcript_cache'[rkey[r]].left = 0
               /\ transcript_db'[rkey[r]] = NOT_AVAILABLE]_vars
    /\ [](\A r \in Req :
            (pc[r] = "finally" /\ (rstatus[r] = 500 \/ rsrc[r] = "retry"))
            => ~WroteMarker(r, "mem") /\ ~WroteMarker(r, "disk"))
    /\ [](\A k \in Keys :
            /\ comment_cache[k].val \in Lists \cup {EmptyList}
            /\ comment_db[k].val \in Lists \cup {EmptyList})

\* no request is executing for key k
Quiescent(k) ==
    \A r \in Req : pc[r] \in {"idle", "done"} \/ rkey[r] # k

\* C38: whenever no request is executing for a key and the memory tier
\* holds an entry for it, the persistent tier holds the same value for
\* the key, payload or marker; in particular a fetch that ends in
\* NoTranscriptFound and a concurrent fetch that succeeds do not leave a
\* payload in the memory tier and the marker in the persistent tier.
C38_TiersAgreeAtQuiescence ==
    \A k \in Keys :
        (Quiescent(k) /\ CacheGet(transcript_cache, k) # NONE)
        => transcript_db[k] = CacheGet(transcript_cache, k)

\* =================================================================
\* Properties of get_transcript (specification SpecO)
\* =================================================================

\* C5: no call of get_transcript starts an attempt of the primary adapter
\* through a provider whose cooldown is running while another provider is
\* not cooling down.
C5_NoAttemptWhileCooling ==
    [][\A g \in Req :
          (oreq[g].pc = "attempt" /\ oreq'[g].pc = "inAttempt")
          => LET p == oreq[g].seq[oreq[g].idx] IN
             ~ ( /\ cooldown_left[p] > 0
                 /\ \E q \in Providers \ {p} : cooldown_left[q] = 0 )]_vars

\* C6: every payload get_transcript returns, whichever adapter produced it,
\* has a non-empty language code and a non-empty text.
C6_PayloadNonEmpty ==
    \A g \in Req :
        (oreq[g].pc = "done" /\ Truthy(oreq[g].result))
        => /\ oreq[g].result.code # ""
           /\ oreq[g].result.text # <<>>

\* the call g has submitted its fallback tasks and has not returned yet
InFallback(g) == oreq[g].pc \in {"as_completed", "shutdown"}

\* C11: within one call of get_transcript the timedtext and yt-dlp tasks
\* are submitted only after the primary adapter is through: every provider
\* of the selected sequence had its turn, in order, and either all its
\* attempts ended without a payload or it was passed over while cooling
\* down (without providers, the one direct attempt ended without a
\* payload); both tasks are given no proxy; and a call that returns the
\* payload of a primary attempt has never submitted the fallback tasks.
C11_FallbackAfterPrimaryDirectOnly ==
    \A g \in Req :
        LET c == oreq[g] IN
        /\ (c.running # {} \/ c.fbargs # {}) => InFallback(g)
        /\ InFallback(g) =>
              /\ c.fb
              /\ c.result.kind = "payload" => c.via \in Tasks
              /\ IF c.seq = <<>>
                   THEN c.plog = <<[p |-> 0, n |-> 1, skipped |-> FALSE]>>
                   ELSE /\ Len(c.plog) = Len(c.seq)
                        /\ \A i \in 1..Len(c.seq) :
                              /\ c.plog[i].p = c.seq[i]
                              /\ \/ c.plog[i].skipped /\ c.plog[i].n = 0
                                 \/ /\ ~c.plog[i].skipped
                                    /\ c.plog[i].n =
                                         TRANSCRIPT_PROXY_ATTEMPTS_PER_PROVIDER
              /\ {t.step : t \in c.fbargs} = Tasks
              /\ \A t \in c.fbargs : ~MayUseProxy(t)
        /\ (c.pc = "done" /\ c.via = "api") => ~c.fb
        /\ (c.pc = "done" /\ c.via \in Tasks) => c.fb

\* the fallback tasks run after both providers used up their attempts
C11_Witness ==
    \E g \in Req :
        /\ oreq[g].pc = "as_completed"
        /\ oreq[g].running = Tasks
        /\ Len(oreq[g].plog) = NProviders
        /\ \A i \in 1..NProviders :
              oreq[g].plog[i].n = TRANSCRIPT_PROXY_ATTEMPTS_PER_PROVIDER

\* the call g gets no payload from its attempt through provider p and
\* calls p.record_failure()
FailureStep(g, p) ==
    /\ oreq[g].pc = "inAttempt" /\ oreq'[g].pc = "attempt"
    /\ p = oreq[g].seq[oreq[g].idx]

\* the call g gets a payload from its attempt through provider p and
\* calls p.record_success()
SuccessStep(g, p) ==
    /\ oreq[g].pc = "inAttempt" /\ oreq'[g].pc = "done"
    /\ p = oreq[g].seq[oreq[g].idx]

\* C26: record_failure adds one to failure_count; when the count thereby
\* reaches FAILURE_THRESHOLD the cooldown is set to COOLDOWN_SECONDS from
\* now and the count is reset to 0; it returns true in exactly these
\* calls; no other provider changes.
C26_RecordFailure ==
    [][\A g \in Req, p \in Providers :
          FailureStep(g, p) =>
             /\ IF failure_count[p] + 1 = TRANSCRIPT_PROXY_FAILURE_THRESHOLD
                  THEN /\ cooldown_left'[p] =
                             TRANSCRIPT_PROXY_COOLDOWN_SECONDS
                       /\ failure_count'[p] = 0
                       /\ oreq'[g].entered_cooldown
                  ELSE /\ failure_count'[p] = failure_count[p] + 1
                       /\ cooldown_left'[p] = cooldown_left[p]
                       /\ ~oreq'[g].entered_cooldown
             /\ \A q \in Providers \ {p} :
                   /\ failure_count'[q] = failure_count[q]
                   /\ cooldown_left'[q] = cooldown_left[q]]_vars

\* a call's record_failure has just put its provider into cooldown
C26_Witness ==
    \E g \in Req :
        /\ oreq[g].pc = "attempt"
        /\ oreq[g].entered_cooldown
        /\ cooldown_left[oreq[g].seq[oreq[g].idx]] =
              TRANSCRIPT_PROXY_COOLDOWN_SECONDS
        /\ failure_count[oreq[g].seq[oreq[g].idx]] = 0

\* the clock advances by one unit and nothing else happens
ClockStep ==
    /\ oreq' = oreq
    /\ failure_count' = failure_count
    /\ \A q \in Providers :
          cooldown_left'[q] =
            IF cooldown_left[q] > 0 THEN cooldown_left[q] - 1 ELSE 0

\* C27: a provider that is cooling down becomes available only when the
\* clock reaches its cooldown_until or when record_success is called on
\* it, and in both cases it does; record_success leaves failure_count = 0
\* and no cooldown whatever the state before, also in a call whose
\* attempt began before the cooldown was entered.
C27_LeavesCoolingOnExpiryOrSuccess ==
    [][\A p \in Providers :
          /\ (~is_available(p) /\ is_available(p)')
                => \/ ClockStep /\ cooldown_left[p] = 1
                   \/ \E g \in Req : SuccessStep(g, p)
          /\ (ClockStep /\ cooldown_left[p] = 1) => is_available(p)'
          /\ \A g \in Req :
                SuccessStep(g, p) => /\ failure_count'[p] = 0
                                     /\ cooldown_left'[p] = 0
                                     /\ is_available(p)']_vars

\* a call whose attempt was under way when its provider entered cooldown
\* returned a payload and ended the cooldown
C27_Witness ==
    \E g \in Req :
        /\ oreq[g].pc = "done"
        /\ oreq[g].via = "api"
        /\ oreq[g].cut_cooldown
        /\ \E h \in Req \ {g} :
              /\ oreq[h].pc = "attempt"
              /\ oreq[h].entered_cooldown
              /\ is_available(oreq[h].seq[oreq[h].idx])

\* C28: the calls of record_success and record_failure on a provider take
\* effect one at a time, none is lost: after every call
\* 0 <= failure_count < FAILURE_THRESHOLD, and after k failures without a
\* success the count is k modulo the threshold and the provider has
\* entered cooldown floor(k / FAILURE_THRESHOLD) times.
C28_NoLostUpdate ==
    \A p \in Providers :
        /\ 0 <= failure_count[p]
        /\ failure_count[p] < TRANSCRIPT_PROXY_FAILURE_THRESHOLD
        /\ failure_count[p] =
              nfailures[p] % TRANSCRIPT_PROXY_FAILURE_THRESHOLD
        /\ ncooldowns[p] =
              nfailures[p] \div TRANSCRIPT_PROXY_FAILURE_THRESHOLD

\* two calls failed through the same provider in turn and it entered
\* cooldown twice
C28_Witness ==
    \E p \in Providers :
        /\ ncooldowns[p] = 2
        /\ \A g \in Req : oreq[g].pc # "idle" /\ Len(oreq[g].plog) >= 1
                             /\ oreq[g].plog[1].p = p
                             /\ oreq[g].plog[1].n >= 1

\* C30: within one call of get_transcript a provider that is cooling down
\* when its turn comes is attempted only if it is the first of the
\* selected sequence and every provider is cooling down; it is never
\* attempted while another provider is available, also when it entered
\* cooldown between the selection and its turn.
C30_CoolingAttemptedOnlyAsBypass ==
    [][\A g \in Req :
          (oreq[g].pc = "provider" /\ oreq'[g].pc = "attempt")
          => LET p == oreq[g].seq[oreq[g].idx] IN
             ~is_available(p)
               => /\ oreq[g].idx = 1
                  /\ \A q \in Providers : ~is_available(q)]_vars

\* C31: within one call of get_transcript each provider gets at most
\* ATTEMPTS_PER_PROVIDER attempts of the primary adapter; every attempt
\* that ends is followed by one accounting call on its provider,
\* record_success when it returned a payload with a non-empty text and
\* record_failure when it returned nothing or raised; and the call
\* returns with the first payload, making no further attempt.
C31_AttemptsAndAccounting ==
    /\ [](\A g \in Req :
            /\ \A i \in 1..Len(oreq[g].plog) :
                  /\ oreq[g].plog[i].n
                        <= TRANSCRIPT_PROXY_ATTEMPTS_PER_PROVIDER
                  /\ \A j \in 1..Len(oreq[g].plog) :
                        i # j => oreq[g].plog[i].p # oreq[g].plog[j].p
            /\ oreq[g].pc = "inAttempt" =>
                  oreq[g].plog[Len(oreq[g].plog)].n
                     < TRANSCRIPT_PROXY_ATTEMPTS_PER_PROVIDER)
    /\ [][\A g \in Req :
             (oreq[g].pc = "inAttempt" /\ oreq'[g].pc # "inAttempt")
             => LET p == oreq[g].seq[oreq[g].idx] IN
                /\ \A q \in Providers \ {p} :
                      /\ nfailures'[q] = nfailures[q]
                      /\ failure_count'[q] = failure_count[q]
                      /\ cooldown_left'[q] = cooldown_left[q]
                /\ \/ /\ oreq'[g].attempt_status = "success"
                      /\ oreq'[g].pc = "done"
                      /\ Truthy(oreq'[g].result)
                      /\ oreq'[g].result.text # <<>>
                      /\ oreq'[g].via = "api"
                      /\ nfailures'[p] = 0
                      /\ failure_count'[p] = 0 /\ cooldown_left'[p] = 0
                   \/ /\ oreq'[g].attempt_status \in {"exception", "empty"}
                      /\ oreq'[g].pc = "attempt"
                      /\ nfailures'[p] = nfailures[p] + 1
                      /\ oreq'[g].plog[Len(oreq[g].plog)].n =
                            oreq[g].plog[Len(oreq[g].plog)].n + 1]_vars

\* a call is in its last attempt through the last provider after every
\* earlier attempt failed
C31_Witness ==
    \E g \in Req :
        /\ oreq[g].pc = "inAttempt"
        /\ oreq[g].idx = NProviders
        /\ oreq[g].attempt = TRANSCRIPT_PROXY_ATTEMPTS_PER_PROVIDER
        /\ \A i \in 1..(NProviders - 1) :
              oreq[g].plog[i].n = TRANSCRIPT_PROXY_ATTEMPTS_PER_PROVIDER

\* a payload with a text in it
NonEmptyResult(res) == Truthy(res) /\ res.text # <<>>

\* C33: in the parallel fallback get_transcript returns the payload of
\* the task that is first to complete with a non-empty result, whichever
\* of the two completes first: a completed task is passed over only when
\* it gave no non-empty result; and "raise NoTranscriptFound" is reached
\* exactly when both tasks completed without one or the deadline passed
\* before any did.
C33_FirstNonEmptyFallbackWins ==
    [][\A g \in Req :
          /\ (oreq[g].pc = "as_completed" /\ oreq'[g].pc = "as_completed"
                 /\ oreq[g].completed # <<>>
                 /\ oreq'[g].completed = Tail(oreq[g].completed))
               => ~NonEmptyResult(Head(oreq[g].completed).res)
          /\ (oreq[g].pc = "as_completed" /\ oreq'[g].pc = "shutdown")
               => IF oreq[g].completed # <<>>
                    THEN /\ NonEmptyResult(Head(oreq[g].completed).res)
                         /\ oreq'[g].result = Head(oreq[g].completed).res
                         /\ oreq'[g].via = Head(oreq[g].completed).step
                    ELSE ~Truthy(oreq'[g].result)
          /\ (oreq[g].pc = "shutdown" /\ oreq'[g].pc = "done")
               => IF Truthy(oreq[g].result)
                    THEN oreq'[g].result = oreq[g].result
                    ELSE oreq'[g].result = Raised]_vars

\* C34: in the parallel fallback the return of get_transcript does not
\* wait for the task that lost: once a task has given a result that is
\* returned, or the deadline has passed, the call can return while the
\* other task is still running.
C34_ReturnDoesNotWaitForLoser ==
    \A g \in Req :
        oreq[g].pc = "shutdown" =>
            ENABLED (\E exc \in {"NoTranscriptFound", "TypeError"} :
                        OShutdown(g, exc))

\* =================================================================
\* Properties of the language handling (specification SpecL)
\* =================================================================

\* the request was made with strictLanguages=true and allowTranslate=false
\* and an explicit languages list, and no track of the video is in one of
\* the requested languages
StrictNoMatch ==
    /\ RawGiven(lreq.raw_langs)
    /\ lreq.strict_languages /\ ~lreq.allow_translate
    /\ lreq.tl # <<>>
    /\ \A i \in 1..Len(lreq.tl) :
          /\ ~InSeq(lreq.tl[i].code, lreq.languages)
          /\ \A j \in 1..Len(lreq.languages) :
                BaseOf(lreq.tl[i].code) # BaseOf(lreq.languages[j])

\* C12: a /transcript request with strictLanguages=true and
\* allowTranslate=false for a video without a caption track in a requested
\* language ends with 404: no adapter of the chain makes it end with 200.
C12_StrictNoMatchIs404 ==
    (lreq.pc = "done" /\ StrictNoMatch) => lreq.status = 404

\* the request asked for the one language L with allowTranslate=true and
\* the other flags at their defaults, the video has a single translatable
\* track in another language, and the upstream answered the primary adapter
TranslateCase(L) ==
    /\ lreq.raw_langs = <<L>>
    /\ lreq.allow_translate /\ lreq.prefer_original
    /\ ~lreq.strict_languages
    /\ Len(lreq.tl) = 1 /\ lreq.tl[1].translatable
    /\ BaseOf(lreq.tl[1].code) # L
    /\ lreq.net = "ok"

\* C13: a request for languages=L with allowTranslate=true and the other
\* flags at their defaults, for a video whose only track is a translatable
\* one in another language, returns 200 with language.code = L.
C13_TranslatedToRequested ==
    \A L \in {"es", "fr"} :
        (lreq.pc = "done" /\ TranslateCase(L))
        => /\ lreq.status = 200
           /\ lreq.result.code = L

\* no token of the caller's list is an English code
NoEnglishAsked ==
    /\ RawGiven(lreq.raw_langs)
    /\ \A i \in 1..Len(lreq.raw_langs) :
          BaseOf(StripLower(lreq.raw_langs[i])) # "en"

\* the position in the caller's list of the code a resolved tag stems
\* from, 0 when it stems from none
CallerIndex(tag) ==
    LET bl == base_list(lreq.raw_langs)
        idx == {k \in 1..Len(bl) : InSeq(tag, Variants(bl[k]))}
    IN IF idx = {} THEN 0 ELSE CHOOSE k \in idx : \A j \in idx : k <= j

\* the resolved list holds the caller's codes and their variants only, in
\* the caller's order, and no English tag
OnlyCallerCodes ==
    LET ls == lreq.languages IN
    /\ \A i \in 1..Len(ls) : CallerIndex(ls[i]) # 0
    /\ \A i, j \in 1..Len(ls) :
          i < j => CallerIndex(ls[i]) <= CallerIndex(ls[j])
    /\ \A i \in 1..Len(ls) : ls[i] \notin EnglishTags

C32_DirectNoTrackFallsBack ==
    [][(/\ lreq.pc = "primary" /\ lreq'.pc # "primary"
        /\ TRANSCRIPT_PROXY_PROVIDERS = <<>>
        /\ ApiSelect(lreq.tl, lreq.languages, lreq.prefer_original,
                     lreq.strict_languages, lreq.allow_translate,
                     lreq'.net).ft = "missing")
       => lreq'.pc = "fallback"]_vars

\* C35: the primary adapter chooses its track by the priority of its
\* steps 1) to 5); with strict_languages=true the track it returns is in
\* a requested language or is a translation into the first requested
\* language, never an untranslated track of another language.
C35_StrictNeverOutsideRequested ==
    (lreq.pc \in {"respond", "done"} /\ lreq.via = "api"
        /\ lreq.strict_languages)
    => InSeq(lreq.result.code, lreq.languages)

\* =================================================================
\* Properties of the /comments endpoint (specification SpecC)
\* =================================================================

\* the order of the strategies as documented
DocumentedOrder ==
    <<"downloader-direct", "downloader-proxied", "ytdlp-direct",
      "ytdlp-proxied">>

\* the handler thread r is inside or past the strategy chain
InChain(r) == creq[r].pc \in {"chain", "wMem", "wDisk"}

\* C8: the strategies invoked by one run of the comment engine are, in
\* order of invocation, a prefix of downloader-direct, downloader-proxied,
\* yt-dlp-direct, yt-dlp-proxied; every strategy but the last invoked one
\* returned an empty list or failed; when a strategy returned a non-empty
\* list the engine invoked nothing after it and returns exactly that list.
C8_SerialFirstNonEmptyWins ==
    \A r \in Req :
        InChain(r) =>
        LET log == creq[r].log IN
        /\ Len(log) <= Len(DocumentedOrder)
        /\ \A i \in 1..Len(log) : log[i].name = DocumentedOrder[i]
        /\ \A i \in 1..Len(log) :
              i < Len(log) => log[i].kind \in {"empty", "exception"}
        /\ creq[r].pc = "chain" =>
              /\ creq[r].idx = Len(log) + 1
              /\ \A i \in 1..Len(log) : log[i].kind # "list"
        /\ (log # <<>> /\ log[Len(log)].kind = "list") =>
              /\ creq[r].pc # "chain"
              /\ creq[r].comments = log[Len(log)].val
              /\ creq[r].comments # EmptyList

\* the second strategy returned a list after the first returned nothing
C8_Witness ==
    \E r \in Req :
        /\ creq[r].pc = "wMem"
        /\ Len(creq[r].log) = 2
        /\ creq[r].log[1].kind = "empty"
        /\ creq[r].log[2].kind = "list"
        /\ creq[r].comments = creq[r].log[2].val

\* C9: a request in which a strategy raised a permanent block is answered
\* 200 with an empty comment list and a warning.
C9_BlockAnsweredWithWarning ==
    \A r \in Req :
        (creq[r].pc \in {"finSet", "finPop", "done"} /\ creq[r].blocked)
        => /\ creq[r].status = 200
           /\ creq[r].body = EmptyList
           /\ creq[r].warning

\* C10: when the only earlier request for a video ended in a permanent
\* block and its cache lifetime has run out, the next request for the video
\* is not answered from the cache.
C10_BlockedEmptyListExpires ==
    \A r1, r2 \in Req :
        ( /\ r1 # r2
          /\ cnstarted = 2
          /\ creq[r1].key = creq[r2].key
          /\ creq[r1].pc = "done" /\ creq[r1].blocked
          /\ creq[r2].pc = "done"
          /\ r1 \in creq[r2].pre /\ r1 \notin creq[r2].recent )
        => creq[r2].src \notin {"mem", "disk"}

\* the handler thread x ran the strategy chain to its end: it answered
\* after both writes, or after the shelve write raised
ChainCompleted(x) == creq[x].pc = "done" /\ creq[x].src \in {"fetch", "error"}

\* C40: once a request for a video has run the strategy chain to its end
\* without an exception, every later request for the video is answered
\* from a cache tier without invoking a strategy, and with the list the
\* earlier request wrote for as long as the persistent tier holds it.
C40_ChainResultServedFromCache ==
    \A r, x \in Req :
        ( /\ r # x
          /\ creq[r].pc = "done" /\ creq[r].key \in Keys
          /\ x \in creq[r].pre /\ creq[x].key = creq[r].key
          /\ ChainCompleted(x) )
        => /\ creq[r].src \in {"mem", "disk"}
           /\ ( /\ creq[x].src = "fetch"
                /\ comment_db[creq[r].key] =
                      [has |-> TRUE, val |-> creq[x].body] )
              => creq[r].body = creq[x].body

\* =================================================================
\* Properties of extract_video_id (specification SpecV)
\* =================================================================

\* C21: a value returned by extract_video_id has the length of a video id
\* and every character of it is one of A-Z, a-z, 0-9, underscore, hyphen.
C21_ExtractedIdIsAscii ==
    (vreq.pc = "returned" /\ vreq.video_id # NoId)
    => /\ Len(vreq.video_id) = VIDEO_ID_LENGTH
       /\ \A i \in 1..Len(vreq.video_id) : vreq.video_id[i] \in IdChars

\* =================================================================
\* Properties of the provider pool (specification SpecP)
\* =================================================================

\* the position of provider p in the configured list
PositionOf(p) ==
    CHOOSE i \in 1..Len(TRANSCRIPT_PROXY_PROVIDERS) :
        TRANSCRIPT_PROXY_PROVIDERS[i] = p

\* sq lists exactly the providers of the set ps, each once
ListsOnce(sq, ps) ==
    /\ Len(sq) = Cardinality(ps)
    /\ {sq[i] : i \in 1..Len(sq)} = ps

\* C29: the selection returns the available providers in their configured
\* order when there is one; otherwise all providers in ascending order of
\* cooldown_until; the empty sequence only when no provider is
\* configured; and it changes no provider's failure_count or
\* cooldown_until.
C29_SelectionOrder ==
    /\ [](pcall.op = "select" =>
            LET sq == pcall.seq
                configured == {p \in Providers : Configured(p)}
                available == {p \in configured : cooldown_left[p] = 0}
            IN /\ IF available # {}
                    THEN /\ ListsOnce(sq, available)
                         /\ \A i, j \in 1..Len(sq) :
                               i < j => PositionOf(sq[i]) < PositionOf(sq[j])
                    ELSE /\ ListsOnce(sq, configured)
                         /\ \A i, j \in 1..Len(sq) :
                               i < j => cooldown_left[sq[i]]
                                           <= cooldown_left[sq[j]]
               /\ sq = <<>> <=> TRANSCRIPT_PROXY_PROVIDERS = <<>>)
    /\ [][pcall'.op = "select" =>
             /\ failure_count' = failure_count
             /\ cooldown_left' = cooldown_left]_vars

\* every provider is cooling down and the selection puts a provider
\* first that is not the first of the configured list
C29_Witness ==
    /\ pcall.op = "select"
    /\ Len(pcall.seq) = NProviders
    /\ \A p \in Providers : cooldown_left[p] > 0
    /\ pcall.seq[1] # TRANSCRIPT_PROXY_PROVIDERS[1]
    /\ cooldown_left[pcall.seq[1]] < cooldown_left[pcall.seq[NProviders]]

\* =================================================================
\* Properties of the cache keys (specification SpecK)
\* =================================================================

\* the request being served has caller-supplied or header-inferred
\* languages
LanguagePath ==
    RawGiven(kreq.raw_langs) \/ HeaderInferred(kreq.inferred_bases)

\* C25 (as claimed): the bare video_id key of the persistent tier is
\* read only by requests on the default path, a request with languages
\* never returns a value stored under it, and no fetch writes it.
C25_BareKeyNeverWritten ==
    kreq.pc = "done"
    => /\ kreq.readkey = BareKey => ~LanguagePath
       /\ kreq.wrotekey # BareKey

\* C25 (amended): the bare video_id key of the persistent tier is read
\* and written only by requests on the default path, whose cache key it
\* is; a request with languages reads and writes its own key only.
C25_BareKeyDefaultPathOnly ==
    kreq.pc = "done"
    => /\ kreq.readkey = BareKey => ~LanguagePath
       /\ kreq.wrotekey = BareKey => ~LanguagePath
       /\ LanguagePath =>
            /\ kreq.cache_key # BareKey
            /\ kreq.readkey \in {<<>>, kreq.cache_key}
            /\ kreq.wrotekey \in {<<>>, kreq.cache_key}
       /\ (~LanguagePath /\ kreq.wrotekey # <<>>) => kreq.wrotekey = BareKey

\* a request with languages has fetched although the bare key holds a
\* payload
C25_Witness ==
    /\ kreq.pc = "done" /\ LanguagePath
    /\ ktranscript_db[BareKey] \in Payloads
    /\ kreq.wrotekey = kreq.cache_key
    /\ kreq.status = 200

\* C37: a /transcript request with strictLanguages=true that is answered
\* 200 carries a language code of its resolved language list, also when
\* the payload comes from a cache entry that an earlier request for the
\* same video and languages wrote with other flags.
C37_StrictHoldsThroughCache ==
    (kreq.pc = "done" /\ kreq.status = 200 /\ kreq.strict_languages)
    => InSeq(PayloadCode(kreq.body),
             ResolveLanguages(kreq.raw_langs, kreq.inferred_bases))

\* =================================================================
\* Properties of both endpoints (specification SpecE)
\* =================================================================

\* no request for key k is being served by a /transcript thread
TQuiet(k) == \A r \in Req : rkey[r] = k => pc[r] \in {"idle", "done"}

\* no request for video k is being served by a /comments thread
CQuiet(k) == \A r \in Req : creq[r].key = k => creq[r].pc \in {"idle", "done"}

\* C14: when a leader completes, by whatever path, its in-flight entry is
\* gone and its event is set; no in-flight entry outlives the requests for
\* its key.
C14_LeaderCompletionClearsEntry ==
    /\ [][\A r \in Req :
            (pc[r] = "finally" /\ pc'[r] = "done" /\ rleader[r])
            => /\ revt[r] \in tevset'
               /\ transcript_inflight_events'[rkey[r]] # revt[r]]_vars
    /\ [][\A r \in Req :
            ( /\ creq[r].pc = "finPop" /\ creq'[r].pc = "done"
              /\ creq[r].leader /\ creq[r].evt # 0 )
            => /\ creq[r].evt \in cevset'
               /\ comment_inflight_events'[creq[r].key] # creq[r].evt]_vars
    /\ [](\A k \in Keys :
            /\ TQuiet(k) => transcript_inflight_events[k] = 0
            /\ CQuiet(k) => comment_inflight_events[k] = 0)

\* a follower has been released by a leader that was answered 500, and the
\* entry of the key is gone
C14_Witness ==
    \E r, q \in Req :
        /\ SameKey(r, q)
        /\ pc[r] = "done" /\ rstatus[r] = 500 /\ rcalls[r] >= 1
        /\ pc[q] = "reMem" /\ revt[q] \in tevset
        /\ transcript_inflight_events[rkey[q]] = 0

\* followers of key k that are acquiring: /transcript threads in
\* get_transcript that are not the leader, /comments threads in the
\* strategy chain under an event that is not their own
TPromoted(k) == {r \in Req : rkey[r] = k /\ pc[r] = "calling" /\ ~rleader[r]}
CPromoted(k) == {r \in Req : /\ creq[r].key = k /\ creq[r].pc = "chain"
                             /\ creq[r].evt # creq[r].id}

\* C15: a follower whose wait has ended starts acquiring only after a
\* look into the cache that finds nothing under its key, and at most one
\* follower of a key is acquiring at a time.
C15_FollowerRereadsOnePromoted ==
    /\ [][\A r \in Req :
            (pc[r] \in {"wait", "reMem", "reDisk"} /\ pc'[r] = "calling")
            => transcript_db[rkey[r]] = NONE]_vars
    /\ [][\A r \in Req :
            ( /\ creq[r].pc \in {"wait", "reMem", "reDisk"}
              /\ creq'[r].pc = "chain" )
            => ~comment_db[creq[r].key].has]_vars
    /\ [](\A k \in Keys :
            /\ Cardinality(TPromoted(k)) <= 1
            /\ Cardinality(CPromoted(k)) <= 1)

\* the step receives a /transcript request, a /comments request, to which
\* no request number is given: its videoId is missing or invalid
TBadStep == nstarted' = nstarted + 1 /\ \A r \in Req : rid'[r] # nstarted'
CBadStep == cnstarted' = cnstarted + 1
            /\ \A r \in Req : creq'[r].id # cnstarted'

\* C18: a request whose videoId is missing or invalid is answered 400
\* and changes no cache tier, no in-flight map and no provider's failure
\* count or cooldown; it calls no adapter.
C18_BadRequestChangesNothing ==
    /\ [][TBadStep =>
            /\ \E r \in Req :
                  /\ pc'[r] = "done" /\ rstatus'[r] = 400
                  /\ rcalls'[r] = 0
                  /\ rsrc'[r] \in {"missing", "invalid"}
            /\ UNCHANGED <<transcript_cache, transcript_db,
                           transcript_inflight_events, tevset,
                           failure_count, cooldown_left, onstarted>>]_vars
    /\ [][CBadStep =>
            /\ \E r \in Req :
                  /\ creq'[r].pc = "done" /\ creq'[r].status = 400
                  /\ creq'[r].log = <<>>
            /\ UNCHANGED <<comment_cache, comment_db,
                           comment_inflight_events, cevset,
                           failure_count, cooldown_left, onstarted>>]_vars

\* an invalid videoId was answered 400 after an earlier request had left
\* its payload in both tiers
C18_Witness ==
    \E r \in Req, k \in Keys :
        /\ pc[r] = "done" /\ rstatus[r] = 400 /\ rsrc[r] = "invalid"
        /\ \E x \in rpre[r] : rstatus[x] = 200 /\ rkey[x] = k
        /\ CacheGet(transcript_cache, k) \in Payloads
        /\ transcript_db[k] \in Payloads

\* C22: the election step of a request for a key with no in-flight entry
\* registers the request's event and makes it leader; with an entry there
\* it leaves the entry, takes its event and makes the request a follower;
\* a registered event is that of exactly one request, a leader still at
\* work.
C22_ElectionExclusive ==
    /\ [][\A r \in Req :
            (pc[r] = "elect" /\ pc'[r] # "elect")
            => LET e == transcript_inflight_events[rkey[r]]
                   e2 == transcript_inflight_events'[rkey[r]]
               IN IF e = 0
                    THEN e2 = rid[r] /\ revt'[r] = rid[r] /\ rleader'[r]
                    ELSE e2 = e /\ revt'[r] = e /\ ~rleader'[r]
                         /\ pc'[r] = "wait"]_vars
    /\ [][\A r \in Req :
            (creq[r].pc = "elect" /\ creq'[r].pc # "elect")
            => LET e == comment_inflight_events[creq[r].key]
                   e2 == comment_inflight_events'[creq[r].key]
               IN IF e = 0
                    THEN e2 = creq[r].id /\ creq'[r].evt = creq[r].id
                         /\ creq'[r].leader
                    ELSE e2 = e /\ creq'[r].evt = e /\ ~creq'[r].leader
                         /\ creq'[r].pc = "wait"]_vars
    /\ [](\A k \in Keys :
            /\ transcript_inflight_events[k] # 0 =>
                 Cardinality({r \in Req :
                     /\ rkey[r] = k /\ rleader[r]
                     /\ rid[r] = transcript_inflight_events[k]
                     /\ pc[r] \notin {"idle", "done"}}) = 1
            /\ comment_inflight_events[k] # 0 =>
                 Cardinality({r \in Req :
                     /\ creq[r].key = k /\ creq[r].leader
                     /\ creq[r].id = comment_inflight_events[k]
                     /\ creq[r].pc \notin {"idle", "done"}}) = 1)

\* of two requests that ran the election for a key, one is the leader and
\* the other waits on the leader's event
C22_Witness ==
    \E r, q \in Req :
        /\ SameKey(r, q)
        /\ pc[r] = "calling" /\ rleader[r]
        /\ transcript_inflight_events[rkey[r]] = rid[r]
        /\ pc[q] = "wait" /\ ~rleader[q] /\ revt[q] = rid[r]

\* C23: a fetched result is in the persistent tier before it is in the
\* memory tier: while the memory tier holds the value a request has just
\* fetched, the persistent tier holds it too.
C23_PersistentBeforeMemory ==
    /\ \A r \in Req :
          ( /\ pc[r] \notin {"idle", "done"} /\ rcalls[r] >= 1
            /\ rval[r] \in Payloads
            /\ WrittenBy(r, "mem")
            /\ CacheGet(transcript_cache, rkey[r]) = rval[r] )
          => transcript_db[rkey[r]] = rval[r]
    /\ \A r \in Req :
          ( /\ creq[r].pc \notin {"idle", "done", "chain"}
            /\ creq[r].log # <<>>
            /\ CCacheHas(comment_cache, creq[r].key)
            /\ comment_cache[creq[r].key].val = creq[r].comments )
          => /\ comment_db[creq[r].key].has
             /\ comment_db[creq[r].key].val = creq[r].comments

\* C24: the persistent tier is looked into only after the memory tier
\* had no entry; a request answered from the persistent tier returns with
\* the value it was answered with in the memory tier under its key, and
\* has called no adapter.
C24_ReadOrderAndPromotion ==
    /\ [][\A r \in Req :
            /\ (pc[r] \in {"chkMem", "reMem"}
                  /\ pc'[r] \in {"chkDisk", "reDisk"})
               => CacheGet(transcript_cache, rkey[r]) = NONE
            /\ (pc[r] # "done" /\ pc'[r] = "done" /\ rsrc'[r] = "disk")
               => /\ rcalls'[r] = 0
                  /\ CacheGet(transcript_cache', rkey[r]) =
                        IF rstatus'[r] = 404 THEN NOT_AVAILABLE
                                             ELSE rbody'[r]]_vars
    /\ [][\A r \in Req :
            /\ (creq[r].pc \in {"chkMem", "reMem"}
                  /\ creq'[r].pc \in {"chkDisk", "reDisk"})
               => ~CCacheHas(comment_cache, creq[r].key)
            /\ ( /\ creq[r].pc # "done" /\ creq'[r].pc = "done"
                 /\ creq'[r].src = "disk" )
               => /\ creq[r].log = <<>>
                  /\ CCacheHas(comment_cache', creq[r].key)
                  /\ comment_cache'[creq[r].key].val = creq'[r].body]_vars

C39_AcquisitionCoveredByEntry ==
    \A k \in Keys :
        /\ (\E r \in Req : pc[r] = "calling" /\ rkey[r] = k)
             => /\ transcript_inflight_events[k] # 0
                /\ transcript_inflight_events[k] \notin tevset
        /\ (\E r \in Req : creq[r].pc = "chain" /\ creq[r].key = k)
             => /\ comment_inflight_events[k] # 0
                /\ comment_inflight_events[k] \notin cevset

====
